---- MODULE Spec2Model ----
(***************************************************************************)
(* Extraction / normalisation pipeline of the credit-report scraper:       *)
(* ExtractionService.extractAll3BReport (orchestrator), the section        *)
(* extractors it calls, the parser's field transforms and                  *)
(* ReportBuilder.buildFullReport.                                          *)
(*                                                                         *)
(* JavaScript values are modelled as follows.  A string is the sequence of *)
(* its characters, wrapped by Str; a number is a decimal mantissa/scale    *)
(* pair wrapped by Num; an array is a sequence wrapped by Arr; null,       *)
(* undefined and NaN are the constants Null, Undefined and NaN; an object  *)
(* is a TLA+ function from its key names to values.  A rejected promise or *)
(* a thrown exception is the value Throw.                                  *)
(***************************************************************************)
EXTENDS Integers, Sequences, FiniteSets, TLC

VARIABLES
    page,        \* the Puppeteer page: document, and which operations reject
    options,     \* options of extractAll3BReport: sections, accountHistory
    buildOpts,   \* options of buildFullReport: includeDashboard
    pc,          \* position of the run: a section block, "extracted", ...
    outcome,     \* "running", "returned" or "rejected" (extractAll3BReport)
    raw3BData,   \* the raw-section map the orchestrator fills
    report,      \* result of the first buildFullReport call (NoReport before)
    report2,     \* result of a second buildFullReport call on the same input
    validation,  \* result of validateReport(report) (NoReport before)
    now,         \* the clock read by new Date()
    input,       \* the value a field transform is called with
    output,      \* the transform that was called and what it returned
    inflight,    \* the page.evaluate calls that were issued and have not settled
    awaiting,    \* what the run is suspended on: a call, "delay", or "none"
    issued,      \* how many awaited operations the current block has started
    completed,   \* the page.evaluate calls of the run that have settled
    clicked,     \* the buttons the reveal step has clicked
    timer,       \* the settling delay: armed or not, and the time elapsed
    runs,        \* the extraction-and-build runs the server has in progress
    service,     \* the fields of the singleton services
    request      \* the POST /api/sync request the server is handling

vars == <<page, options, buildOpts, pc, outcome, raw3BData, report, report2,
          validation, now, input, output,
          inflight, awaiting, issued, completed, clicked, timer, runs, service,
          request>>

\* the variables of the server: its concurrent runs, its singleton services
\* and the request it is handling
runVars == <<runs, service, request>>

\* no POST /api/sync request is being handled
NoRequest == [pc |-> "none"]

\* the variables of the document operations of a run
opVars == <<inflight, awaiting, issued, completed, clicked, timer>>

\* the variables of a direct call of a field transform
transformVars == <<input, output>>

-----------------------------------------------------------------------------
(* Bounds of the model *)

MaxFailures == 1     \* failure points (missing structures, rejecting calls) per page
MaxAccounts == 3     \* account containers in the varied Account History section
MaxLimit    == 2     \* largest limit / offset drawn for the pagination window

-----------------------------------------------------------------------------
(* JavaScript values *)

Null      == [js |-> "null"]
Undefined == [js |-> "undefined"]
NaN       == [js |-> "NaN"]
Throw     == [js |-> "throw"]
NoEl      == [js |-> "no-element"]      \* querySelector found nothing
Str(s)    == [js |-> "string", chars |-> s]
Num(m, e) == [js |-> "number", m |-> m, e |-> e]   \* the number m / 10^e
IntNum(n) == Num(n, 0)
Arr(a)    == [js |-> "array", items |-> a]
Bool(b)   == [js |-> "boolean", b |-> b]

IsTagged(v)  == "js" \in DOMAIN v
IsObject(v)  == ~IsTagged(v)
IsString(v)  == IsTagged(v) /\ v.js = "string"
IsNumber(v)  == IsTagged(v) /\ v.js \in {"number", "NaN"}
IsArray(v)   == IsTagged(v) /\ v.js = "array"

\* ToBoolean: the falsy values are null, undefined, NaN, "", 0 and false
Truthy(v) ==
    IF IsObject(v) THEN TRUE
    ELSE CASE v.js \in {"null", "undefined", "NaN", "no-element"} -> FALSE
           [] v.js = "string"  -> v.chars # <<>>
           [] v.js = "number"  -> v.m # 0
           [] v.js = "boolean" -> v.b
           [] OTHER            -> TRUE

\* a || b
OrElse(a, b) == IF Truthy(a) THEN a ELSE b

\* obj.key : undefined when the object has no such key
Get(obj, key) == IF key \in DOMAIN obj THEN obj[key] ELSE Undefined

\* { ...a, ...b }
Spread(a, b) ==
    [key \in (DOMAIN a) \cup (DOMAIN b) |->
        IF key \in DOMAIN b THEN b[key] ELSE a[key]]

\* obj with obj[key] = val assigned
Put(obj, key, val) ==
    [k \in (DOMAIN obj) \cup {key} |-> IF k = key THEN val ELSE obj[k]]

EmptyObj == [k \in {} |-> Null]

-----------------------------------------------------------------------------
(* Characters and strings *)

Digits == {"0", "1", "2", "3", "4", "5", "6", "7", "8", "9"}
IsDigit(c) == c \in Digits
IsSpace(c) == c \in {" "}

DigitVal(c) ==
    CASE c = "0" -> 0 [] c = "1" -> 1 [] c = "2" -> 2 [] c = "3" -> 3
      [] c = "4" -> 4 [] c = "5" -> 5 [] c = "6" -> 6 [] c = "7" -> 7
      [] c = "8" -> 8 [] c = "9" -> 9

RECURSIVE TrimLeft(_)
TrimLeft(s) ==
    IF s # <<>> /\ IsSpace(Head(s)) THEN TrimLeft(Tail(s)) ELSE s

RECURSIVE TrimRight(_)
TrimRight(s) ==
    IF s # <<>> /\ IsSpace(s[Len(s)])
    THEN TrimRight(SubSeq(s, 1, Len(s) - 1)) ELSE s

\* String.prototype.trim
Trim(s) == TrimRight(TrimLeft(s))

\* number of leading digits of s
RECURSIVE DigitRun(_)
DigitRun(s) ==
    IF s # <<>> /\ IsDigit(Head(s)) THEN 1 + DigitRun(Tail(s)) ELSE 0

\* value of a sequence of digits
RECURSIVE DigitsToNat(_)
DigitsToNat(ds) ==
    IF ds = <<>> THEN 0
    ELSE 10 * DigitsToNat(SubSeq(ds, 1, Len(ds) - 1)) + DigitVal(ds[Len(ds)])

RECURSIVE Pow10(_)
Pow10(n) == IF n = 0 THEN 1 ELSE 10 * Pow10(n - 1)

\* the decimal digits of a natural number
RECURSIVE NatToChars(_)
NatToChars(n) ==
    LET last == CHOOSE d \in Digits : DigitVal(d) = n % 10
    IN  IF n < 10 THEN <<last>> ELSE NatToChars(n \div 10) \o <<last>>

\* drop the trailing zeros of a fractional digit string
RECURSIVE DropTrailingZeros(_)
DropTrailingZeros(ds) ==
    IF ds # <<>> /\ ds[Len(ds)] = "0"
    THEN DropTrailingZeros(SubSeq(ds, 1, Len(ds) - 1)) ELSE ds

\* parseInt(text) of a string: optional blanks, optional sign, leading digits
parseInt(s) ==
    LET value(neg, body, n) ==
            IF n = 0 THEN NaN
            ELSE IntNum((IF neg THEN -1 ELSE 1) * DigitsToNat(SubSeq(body, 1, n)))
        digits(neg, body) == value(neg, body, DigitRun(body))
        sign(t) ==
            digits(t # <<>> /\ Head(t) = "-",
                   IF t # <<>> /\ Head(t) \in {"-", "+"} THEN Tail(t) ELSE t)
    IN  sign(TrimLeft(s))

\* parseFloat(text) of a string: optional sign, digits, optional fraction;
\* the longest such prefix is the number, NaN when it holds no digit
parseFloat(s) ==
    LET value(neg, int, frac) ==
            Num((IF neg THEN -1 ELSE 1)
                    * (DigitsToNat(int) * Pow10(Len(frac)) + DigitsToNat(frac)),
                Len(frac))
        fraction(neg, int, rest, nf) ==
            IF int = <<>> /\ nf = 0 THEN NaN
            ELSE value(neg, int, DropTrailingZeros(SubSeq(rest, 2, nf + 1)))
        point(neg, int, rest) ==
            fraction(neg, int, rest,
                     IF rest # <<>> /\ Head(rest) = "." THEN DigitRun(Tail(rest)) ELSE 0)
        digits(neg, body, ni) ==
            point(neg, SubSeq(body, 1, ni), SubSeq(body, ni + 1, Len(body)))
        sign(neg, body) == digits(neg, body, DigitRun(body))
        start(t) ==
            sign(t # <<>> /\ Head(t) = "-",
                 IF t # <<>> /\ Head(t) \in {"-", "+"} THEN Tail(t) ELSE t)
    IN  start(TrimLeft(s))

-----------------------------------------------------------------------------
(* utils/parser.js : the field transforms *)

\* str.replace(/[^\d.\-+]/g, '')
RECURSIVE KeepNumeric(_)
KeepNumeric(s) ==
    IF s = <<>> THEN <<>>
    ELSE IF IsDigit(Head(s)) \/ Head(s) \in {".", "-", "+"}
         THEN <<Head(s)>> \o KeepNumeric(Tail(s))
         ELSE KeepNumeric(Tail(s))

\* String(text) for the values that reach extractNumber as non-numbers:
\* a string is itself, true is "true", an array is its items joined by ","
\* and any other object is "[object Object]"
RECURSIVE ToStringChars(_)
ToStringChars(v) ==
    IF IsString(v) THEN v.chars
    ELSE IF IsArray(v)
    THEN (IF Len(v.items) = 0 THEN <<>>
          ELSE IF Len(v.items) = 1 THEN ToStringChars(v.items[1])
          ELSE ToStringChars(v.items[1]) \o <<",">>
                   \o ToStringChars(Arr(Tail(v.items))))
    ELSE IF IsTagged(v) /\ v.js = "boolean"
    THEN (IF v.b THEN <<"t", "r", "u", "e">> ELSE <<"f", "a", "l", "s", "e">>)
    ELSE <<"[", "o", "b", "j", "e", "c", "t", " ", "O", "b", "j", "e", "c", "t", "]">>

extractNumber(text) ==
    IF ~Truthy(text) /\ text # IntNum(0) THEN Null
    ELSE IF IsNumber(text) THEN (IF text = NaN THEN Null ELSE text)
    ELSE LET orNull(num) == IF num = NaN THEN Null ELSE num
         IN  orNull(parseFloat(KeepNumeric(ToStringChars(text))))

\* the first match of /(\d{1,2})\/(\d{1,2})\/(\d{4})/ starting at index i:
\* the groups <<month, day, year>>, or <<>> when no match starts at i
DateMatchAt(s, i) ==
    LET try(ml, dl) ==
            LET d0 == i + ml + 1
                y0 == d0 + dl + 1
            IN  /\ y0 + 3 <= Len(s)
                /\ \A j \in i .. (i + ml - 1) : IsDigit(s[j])
                /\ s[i + ml] = "/"
                /\ \A j \in d0 .. (d0 + dl - 1) : IsDigit(s[j])
                /\ s[d0 + dl] = "/"
                /\ \A j \in y0 .. (y0 + 3) : IsDigit(s[j])
        grp(ml, dl) ==
            <<SubSeq(s, i, i + ml - 1),
              SubSeq(s, i + ml + 1, i + ml + dl),
              SubSeq(s, i + ml + dl + 2, i + ml + dl + 5)>>
    IN  IF try(2, 2) THEN grp(2, 2)
        ELSE IF try(2, 1) THEN grp(2, 1)
        ELSE IF try(1, 2) THEN grp(1, 2)
        ELSE IF try(1, 1) THEN grp(1, 1)
        ELSE <<>>

RECURSIVE DateMatchFrom(_, _)
DateMatchFrom(s, i) ==
    IF i > Len(s) THEN <<>>
    ELSE IF DateMatchAt(s, i) # <<>> THEN DateMatchAt(s, i)
    ELSE DateMatchFrom(s, i + 1)

\* padStart(2, '0')
PadStart2(ds) == IF Len(ds) < 2 THEN <<"0">> \o ds ELSE ds

\* parseScoreDate that rejects a month above 12 or a day above 31
parseScoreDate_validating(dateText) ==
    IF ~Truthy(dateText) THEN Null
    ELSE IF ~IsString(dateText) THEN Throw
    ELSE LET iso(match) ==
                 IF match = <<>> THEN Null
                 ELSE IF DigitsToNat(match[1]) > 12 \/ DigitsToNat(match[2]) > 31
                 THEN Null
                 ELSE Str(match[3] \o <<"-">> \o PadStart2(match[1])
                                   \o <<"-">> \o PadStart2(match[2]))
         IN  iso(DateMatchFrom(dateText.chars, 1))

parseScoreDate(dateText) ==
    IF ~Truthy(dateText) THEN Null
    ELSE IF ~IsString(dateText) THEN Throw        \* dateText.match is not a function
    ELSE LET iso(match) ==
                 IF match = <<>> THEN Null
                 ELSE Str(match[3] \o <<"-">> \o PadStart2(match[1])
                                   \o <<"-">> \o PadStart2(match[2]))
         IN  iso(DateMatchFrom(dateText.chars, 1))

cleanText(text) ==
    IF ~Truthy(text) THEN Null
    ELSE IF ~IsString(text) THEN Throw            \* text.trim is not a function
    ELSE LET cleaned == Trim(text.chars)
         IN  IF cleaned = <<"-", "-">> \/ cleaned = <<>> THEN Null ELSE Str(cleaned)

-----------------------------------------------------------------------------
(* config/extractors.js *)

Bureaus == <<"transunion", "experian", "equifax">>
BureauSet == {"transunion", "experian", "equifax"}

personalInfoFields ==
    <<"credit_report_date", "name", "date_of_birth",
      "current_address", "previous_address", "employer">>

summaryFields ==
    <<"total_accounts", "open_accounts", "closed_accounts", "delinquent",
      "derogatory", "balances", "payments", "public_records", "inquiries_2years">>

accountHistoryFields ==
    <<"account_number", "high_balance", "last_verified", "date_last_activity",
      "date_reported", "date_opened", "balance_owed", "closed_date",
      "account_rating", "account_description", "dispute_status", "creditor_type",
      "account_status", "payment_status", "creditor_remarks", "payment_amount",
      "last_payment", "term_length", "past_due_amount", "account_type",
      "payment_frequency", "credit_limit">>

creditorContactFields == <<"company_name", "phone", "address", "email">>

extractorConfig ==
    [personalInfo |-> [sectionIndex |-> 0, gridIndex |-> 0,
                       fields |-> personalInfoFields],
     summary      |-> [sectionIndex |-> 1, gridIndex |-> 0,
                       fields |-> summaryFields],
     accountHistory   |-> [fields |-> accountHistoryFields],
     inquiries        |-> [sectionHeading |-> <<"I","n","q","u","i","r","i","e","s">>],
     creditorContacts |->
         [contactContainerSelector |->
              <<"d", "i", "v", ".", "c", "r", "e", "d", "i", "t", "o", "r", "-", "c", "o", "n", "t", "a", "c", "t">>,
          showButtonSelector |->
              <<"b", "u", "t", "t", "o", "n", ":", "c", "o", "n", "t", "a", "i", "n", "s", "(", "\"", "S", "h", "o", "w", "\"", ")">>,
          fields |-> creditorContactFields]]

\* the transform each section's configuration declares for a field
declaredTransform(section, field) ==
    IF section = "personalInfo" THEN "cleanText"
    ELSE IF field \in {"balances", "payments"} THEN "cleanText"
    ELSE "extractNumber"

Range(seq) == {seq[i] : i \in 1 .. Len(seq)}
IndexOf(seq, x) == CHOOSE i \in 1 .. Len(seq) : seq[i] = x

-----------------------------------------------------------------------------
(* The page.  page.doc is the document: scoreEls, scoreSection and sections; *)
(* an element that carries text is the string of its textContent, an absent  *)
(* element is NoEl.  doc.selectors is the selector engine of the page: "css" *)
(* is the browser's own querySelectorAll, "extended" an engine that also     *)
(* resolves text-matching selectors.  page.rejects is the set of             *)
(* page.evaluate calls that reject (all of them when the page is unusable).  *)

Ops == {"scores", "personalInfo", "summary", "summaryDetails", "accountHistory",
        "publicRecords", "inquiriesCount", "inquiriesDetails",
        "showButtons", "contacts"}

\* await page.evaluate(...) : the callback's result, or a rejection
Evaluate(pg, op, result) == IF op \in pg.rejects THEN Throw ELSE result

\* el?.textContent.trim() of an optional element (undefined when absent)
TrimmedText(el) == IF el = NoEl THEN Undefined ELSE Str(Trim(el.chars))

\* array[i] with a JavaScript (0-based) index; undefined out of range
At(seq, i) == IF i + 1 \in 1 .. Len(seq) THEN seq[i + 1] ELSE Undefined

\* parseInt(cells[i]?.textContent.trim()) || 0
CellCount(cells, i) ==
    IF i + 1 \in 1 .. Len(cells)
    THEN OrElse(parseInt(Trim(cells[i + 1])), IntNum(0))
    ELSE IntNum(0)

\* the trimmed text is exactly three digits: /^\d{3}$/
IsThreeDigits(chars) ==
    Len(Trim(chars)) = 3 /\ \A i \in 1 .. 3 : IsDigit(Trim(chars)[i])

RECURSIVE Flatten(_)
Flatten(seqs) == IF seqs = <<>> THEN <<>> ELSE Head(seqs) \o Flatten(Tail(seqs))

RECURSIVE SelectSeq2(_, _)
SelectSeq2(seq, keep) ==
    IF seq = <<>> THEN <<>>
    ELSE (IF Head(seq) \in keep THEN <<Head(seq)>> ELSE <<>>)
         \o SelectSeq2(Tail(seq), keep)

-----------------------------------------------------------------------------
(* utils/extractors/grid-extractor.js *)

\* the page.evaluate callback of extractGridData
gridCallback(doc, sectionIndex, gridIndex) ==
    IF Len(doc.sections) = 0 THEN Null
    ELSE IF sectionIndex >= Len(doc.sections) THEN Null
    ELSE LET grids == doc.sections[sectionIndex + 1].grids
         IN  IF Len(grids) = 0 THEN Null
             ELSE IF gridIndex >= Len(grids) THEN Null
             ELSE LET bureauColumns == grids[gridIndex + 1]
                      extractBureauData(columnIndex) ==
                          LET cells == bureauColumns[columnIndex + 1]
                          IN  [i \in 1 .. (IF Len(cells) = 0 THEN 0 ELSE Len(cells) - 1)
                                  |-> Trim(cells[i + 1])]
                  IN  IF Len(bureauColumns) < 4 THEN Null
                      ELSE [transunion |-> extractBureauData(1),
                            experian   |-> extractBureauData(2),
                            equifax    |-> extractBureauData(3)]

mapFieldsToObject(fields, dataArray) ==
    [fieldName \in Range(fields) |->
        LET index == IndexOf(fields, fieldName)
        IN  IF index <= Len(dataArray)
            THEN OrElse(Str(dataArray[index]), Null) ELSE Null]

GridOp(config) == IF config.sectionIndex = 0 THEN "personalInfo" ELSE "summary"

extractGridData(pg, config) ==
    LET rawData == Evaluate(pg, GridOp(config),
                            gridCallback(pg.doc, config.sectionIndex, config.gridIndex))
    IN  IF rawData = Throw THEN Null                    \* catch (error)
        ELSE IF ~Truthy(rawData) THEN Null
        ELSE [b \in BureauSet |-> mapFieldsToObject(config.fields, rawData[b])]

-----------------------------------------------------------------------------
(* services/extraction-service.js : the extractors of the service itself *)

\* the three strategies that locate the score elements
scoreElements(doc) ==
    LET modern  == doc.scoreEls
        classic == IF Len(modern) < 3 /\ doc.scoreSection # NoEl
                   THEN doc.scoreSection.h5 ELSE modern
        allH5   == (IF doc.scoreSection # NoEl THEN doc.scoreSection.h5 ELSE <<>>)
                   \o Flatten([i \in 1 .. Len(doc.sections) |-> doc.sections[i].h5])
    IN  IF Len(classic) < 3
        THEN SelectSeq2(allH5, {t \in Range(allH5) : IsThreeDigits(t)})
        ELSE classic

scoresCallback(doc) ==
    LET els == scoreElements(doc)
    IN  IF Len(els) < 3 THEN Null
        ELSE [transunion |-> OrElse(parseInt(Trim(els[1])), Null),
              experian   |-> OrElse(parseInt(Trim(els[2])), Null),
              equifax    |-> OrElse(parseInt(Trim(els[3])), Null)]

extractScores(pg) ==
    LET scores == Evaluate(pg, "scores", scoresCallback(pg.doc))
    IN  IF scores = Throw THEN Null ELSE scores

\* the bureau columns of the first grid of the Summary section (the second
\* section), or <<>> when a precondition of the narrow reads fails
summaryColumns(doc) ==
    IF Len(doc.sections) < 2 THEN <<>>
    ELSE IF Len(doc.sections[2].grids) = 0 THEN <<>>
    ELSE IF Len(doc.sections[2].grids[1]) < 4 THEN <<>>
    ELSE doc.sections[2].grids[1]

publicRecordsCallback(doc) ==
    LET bureauColumns == summaryColumns(doc)
    IN  IF bureauColumns = <<>> THEN Null
        ELSE [transunion |-> CellCount(bureauColumns[2], 8),
              experian   |-> CellCount(bureauColumns[3], 8),
              equifax    |-> CellCount(bureauColumns[4], 8)]

extractPublicRecords(pg) ==
    LET publicRecordsCount == Evaluate(pg, "publicRecords", publicRecordsCallback(pg.doc))
    IN  IF publicRecordsCount = Throw THEN Null ELSE publicRecordsCount

\* inquiriesCountCallback that reads the public records cell
inquiriesCountCallback_publicRecords(doc) ==
    LET bureauColumns == summaryColumns(doc)
    IN  IF bureauColumns = <<>> THEN Null
        ELSE [transunion |-> CellCount(bureauColumns[2], 8),
              experian   |-> CellCount(bureauColumns[3], 8),
              equifax    |-> CellCount(bureauColumns[4], 8)]

\* the first page.evaluate callback of extractInquiries
inquiriesCountCallback(doc) ==
    LET bureauColumns == summaryColumns(doc)
    IN  IF bureauColumns = <<>> THEN Null
        ELSE [transunion |-> CellCount(bureauColumns[2], 9),
              experian   |-> CellCount(bureauColumns[3], 9),
              equifax    |-> CellCount(bureauColumns[4], 9)]

summaryDetailsCallback(doc) ==
    LET bureauColumns == summaryColumns(doc)
        extractAccountValues(cells) ==
            [total_accounts  |-> CellCount(cells, 1),
             open_accounts   |-> CellCount(cells, 2),
             closed_accounts |-> CellCount(cells, 3)]
    IN  IF bureauColumns = <<>> THEN Null
        ELSE [transunion |-> extractAccountValues(bureauColumns[2]),
              experian   |-> extractAccountValues(bureauColumns[3]),
              equifax    |-> extractAccountValues(bureauColumns[4])]

extractSummaryDetails(pg) ==
    LET summaryDetails == Evaluate(pg, "summaryDetails", summaryDetailsCallback(pg.doc))
    IN  IF summaryDetails = Throw THEN Null ELSE summaryDetails

-----------------------------------------------------------------------------
(* utils/extractors/inquiry-extractor.js *)

\* section.querySelector('h5') : the first heading of a section, or NoEl
Heading(section) == IF Len(section.h5) = 0 THEN NoEl ELSE Str(section.h5[1])

\* the first of the section indexes in hits, 0 when there is none
FirstSection(hits) ==
    IF hits = {} THEN 0 ELSE CHOOSE i \in hits : \A j \in hits : i <= j

\* the rows that have at least 3 cells and a creditor name, in document order
RECURSIVE inquiryRows(_)
inquiryRows(rows) ==
    IF rows = <<>> THEN <<>>
    ELSE LET cells   == Head(rows)
             inquiry == [creditor_name |-> OrElse(Str(Trim(cells[1])), Null),
                         inquiry_date  |-> OrElse(Str(Trim(cells[2])), Null),
                         credit_bureau |-> OrElse(Str(Trim(cells[3])), Null)]
         IN  (IF Len(cells) >= 3 /\ Truthy(inquiry.creditor_name)
              THEN <<inquiry>> ELSE <<>>) \o inquiryRows(Tail(rows))

\* inquiriesDetailsCallback that falls back to the fourth section when no
\* heading matches
inquiriesDetailsCallback_fallback(doc, cfg) ==
    LET isInquiries(section) ==
            Heading(section) # NoEl /\ Trim(Heading(section).chars) = cfg.sectionHeading
        rowsOf(found) ==
            IF found = 0 THEN Arr(<<>>)
            ELSE IF Len(doc.sections[found].rows) = 0 THEN Arr(<<>>)
            ELSE Arr(inquiryRows(doc.sections[found].rows))
        orFourth(found) ==
            IF found = 0 /\ Len(doc.sections) >= 4 THEN 4 ELSE found
    IN  rowsOf(orFourth(FirstSection({i \in 1 .. Len(doc.sections) :
                                         isInquiries(doc.sections[i])})))

\* the page.evaluate callback of extractInquiriesDetails
inquiriesDetailsCallback(doc, cfg) ==
    LET isInquiries(section) ==
            Heading(section) # NoEl /\ Trim(Heading(section).chars) = cfg.sectionHeading
        rowsOf(found) ==
            IF found = 0 THEN Arr(<<>>)
            ELSE IF Len(doc.sections[found].rows) = 0 THEN Arr(<<>>)
            ELSE Arr(inquiryRows(doc.sections[found].rows))
    IN  rowsOf(FirstSection({i \in 1 .. Len(doc.sections) :
                                isInquiries(doc.sections[i])}))

extractInquiriesDetails(pg, config) ==
    LET inquiries == Evaluate(pg, "inquiriesDetails",
                              inquiriesDetailsCallback(pg.doc, config))
    IN  IF inquiries = Throw THEN Arr(<<>>) ELSE inquiries

\* ExtractionService.extractInquiries: the compound {count, details}
extractInquiries(pg) ==
    LET inquiriesCount == Evaluate(pg, "inquiriesCount", inquiriesCountCallback(pg.doc))
        inquiriesDetails == extractInquiriesDetails(pg, extractorConfig.inquiries)
    IN  IF inquiriesCount = Throw
        THEN [count |-> Null, details |-> Arr(<<>>)]          \* catch (error)
        ELSE [count |-> inquiriesCount,
              details |-> OrElse(inquiriesDetails, Arr(<<>>))]

-----------------------------------------------------------------------------
(* utils/extractors/account-extractor.js *)

Malformed == [js |-> "malformed"]      \* an element whose query throws

AccountHistoryText ==
    <<"A","c","c","o","u","n","t"," ","H","i","s","t","o","r","y">>
StatusPrefix == <<"s","t","a","t","u","s","-">>
UnknownText == <<"u","n","k","n","o","w","n">>
ZeroText == <<"0">>
Buckets == {"30", "60", "90"}

StartsWith(s, prefix) ==
    Len(s) >= Len(prefix) /\ SubSeq(s, 1, Len(prefix)) = prefix

\* String.prototype.includes
Includes(s, sub) ==
    \E i \in 1 .. (Len(s) - Len(sub) + 1) : SubSeq(s, i, i + Len(sub) - 1) = sub

\* `Unknown Account ${idx + 1}`
UnknownAccount(idx) ==
    <<"U","n","k","n","o","w","n"," ","A","c","c","o","u","n","t"," ">>
    \o NatToChars(idx + 1)

\* statusClass that takes the last status-* class token
statusClass_lastToken(classes) ==
    LET hits == {i \in 1 .. Len(classes) : StartsWith(classes[i], StatusPrefix)}
        last == CHOOSE i \in hits : \A j \in hits : i >= j
        suffix(c) == SubSeq(c, Len(StatusPrefix) + 1, Len(c))
    IN  IF hits = {} THEN Str(UnknownText)
        ELSE OrElse(Str(suffix(classes[last])), Str(UnknownText))

\* the status-* class token of a month element, without its prefix
statusClass(classes) ==
    LET hits == {i \in 1 .. Len(classes) : StartsWith(classes[i], StatusPrefix)}
        first == CHOOSE i \in hits : \A j \in hits : i <= j
        suffix(c) == SubSeq(c, Len(StatusPrefix) + 1, Len(c))
    IN  IF hits = {} THEN Str(UnknownText)
        ELSE OrElse(Str(suffix(classes[first])), Str(UnknownText))

extractMonthBadges(bureauHistory) ==
    IF bureauHistory = NoEl THEN Arr(<<>>)              \* no months container
    ELSE Arr([i \in 1 .. Len(bureauHistory.months) |->
                LET monthDiv == bureauHistory.months[i]
                IN  [month  |-> OrElse(TrimmedText(monthDiv.label), Str(<<>>)),
                     status |-> OrElse(TrimmedText(monthDiv.badge), Str(<<>>)),
                     status_class |-> statusClass(monthDiv.classes)]])

extractPaymentHistory(container) ==
    IF container.ph = Malformed THEN Throw
    ELSE IF container.ph = NoEl THEN Null
    ELSE IF Len(container.ph.blocks) < 3 THEN Null
    ELSE [transunion |-> extractMonthBadges(container.ph.blocks[1]),
          experian   |-> extractMonthBadges(container.ph.blocks[2]),
          equifax    |-> extractMonthBadges(container.ph.blocks[3])]

extractBureauDaysLate(bureauColumn) ==
    IF bureauColumn = NoEl                               \* no values grid
    THEN [bucket \in Buckets |-> Null]
    ELSE LET value(i) == OrElse(IF i <= Len(bureauColumn.values)
                                THEN Str(Trim(bureauColumn.values[i]))
                                ELSE Undefined, Str(ZeroText))
         IN  [bucket \in Buckets |->
                 value(CASE bucket = "30" -> 1 [] bucket = "60" -> 2 [] bucket = "90" -> 3)]

extractDaysLate(container) ==
    IF container.dl = Malformed THEN Throw
    ELSE IF container.dl = NoEl THEN Null                \* no days-late section
    ELSE IF container.dl.grid = NoEl THEN Null
    ELSE IF Len(container.dl.grid.cols) < 3 THEN Null
    ELSE [transunion |-> extractBureauDaysLate(container.dl.grid.cols[1]),
          experian   |-> extractBureauDaysLate(container.dl.grid.cols[2]),
          equifax    |-> extractBureauDaysLate(container.dl.grid.cols[3])]

\* one bureau column of an account grid, mapped to the configured field names
extractBureauData(bureauColumns, columnIndex, fields) ==
    LET cells == bureauColumns[columnIndex + 1]
    IN  [fieldName \in Range(fields) |->
            LET fieldIdx == IndexOf(fields, fieldName)
            IN  IF fieldIdx + 1 <= Len(cells)
                THEN OrElse(Str(Trim(cells[fieldIdx + 1])), Null) ELSE Null]

\* extractAccount without the inner try/catch around the payment-history and
\* days-late reads: their exception reaches the catch of the loop, which
\* skips the container
extractAccount_uncaught(container, idx, cfg) ==
    IF container.name = Malformed \/ container.grid = Malformed THEN <<>>
    ELSE IF container.grid = NoEl THEN <<>>
    ELSE IF Len(container.grid.columns) < 4 THEN <<>>
    ELSE IF extractPaymentHistory(container) = Throw THEN <<>>
    ELSE IF extractDaysLate(container) = Throw THEN <<>>
    ELSE <<[account_name |-> OrElse(TrimmedText(container.name),
                                    Str(UnknownAccount(idx))),
            transunion |-> extractBureauData(container.grid.columns, 1, cfg.fields),
            experian   |-> extractBureauData(container.grid.columns, 2, cfg.fields),
            equifax    |-> extractBureauData(container.grid.columns, 3, cfg.fields),
            payment_history |-> extractPaymentHistory(container),
            days_late       |-> extractDaysLate(container)]>>

\* extractAccount that numbers the unnamed accounts from 0
extractAccount_zeroBased(container, idx, cfg) ==
    LET accountName == OrElse(TrimmedText(container.name), Str(UnknownAccount(idx - 1)))
        ph == extractPaymentHistory(container)
        dl == extractDaysLate(container)
    IN  IF container.name = Malformed \/ container.grid = Malformed THEN <<>>
        ELSE IF container.grid = NoEl THEN <<>>
        ELSE IF Len(container.grid.columns) < 4 THEN <<>>
        ELSE <<[account_name |-> accountName,
                transunion |-> extractBureauData(container.grid.columns, 1, cfg.fields),
                experian   |-> extractBureauData(container.grid.columns, 2, cfg.fields),
                equifax    |-> extractBureauData(container.grid.columns, 3, cfg.fields),
                payment_history |-> IF ph = Throw THEN Null ELSE ph,
                days_late       |-> IF dl = Throw THEN Null ELSE dl]>>

\* the body of the per-container loop: <<account>>, or <<>> when the container
\* is skipped (no grid, incomplete grid, or an exception caught by the loop)
extractAccount(container, idx, cfg) ==
    LET accountName == OrElse(TrimmedText(container.name), Str(UnknownAccount(idx)))
        ph == extractPaymentHistory(container)
        dl == extractDaysLate(container)
    IN  IF container.name = Malformed \/ container.grid = Malformed THEN <<>>
        ELSE IF container.grid = NoEl THEN <<>>
        ELSE IF Len(container.grid.columns) < 4 THEN <<>>
        ELSE <<[account_name |-> accountName,
                transunion |-> extractBureauData(container.grid.columns, 1, cfg.fields),
                experian   |-> extractBureauData(container.grid.columns, 2, cfg.fields),
                equifax    |-> extractBureauData(container.grid.columns, 3, cfg.fields),
                payment_history |-> IF ph = Throw THEN Null ELSE ph,
                days_late       |-> IF dl = Throw THEN Null ELSE dl]>>

\* the section the account containers are searched in: 0 when there is none
accountHistorySection(doc) ==
    LET hasText(h3) == h3 # NoEl /\ Includes(h3.chars, AccountHistoryText)
        isAccountHistory(section) == hasText(Heading(section))
        orThird(found) ==
            IF found # 0 THEN found
            ELSE IF Len(doc.sections) >= 3 THEN 3
            ELSE 0
    IN  orThird(FirstSection({i \in 1 .. Len(doc.sections) :
                                 isAccountHistory(doc.sections[i])}))

\* accountHistoryCallback that searches the account containers in the whole
\* document
accountHistoryCallback_wholeDocument(doc, cfg) ==
    LET each(accountContainers) ==
            IF Len(accountContainers) = 0 THEN Arr(<<>>)
            ELSE Arr(Flatten([idx \in 1 .. Len(accountContainers) |->
                                 extractAccount(accountContainers[idx], idx - 1, cfg)]))
    IN  each(Flatten([i \in 1 .. Len(doc.sections) |-> doc.sections[i].accounts]))

\* the page.evaluate callback of extractAccountHistory
accountHistoryCallback(doc, cfg) ==
    LET each(accountContainers) ==
            IF Len(accountContainers) = 0 THEN Arr(<<>>)
            ELSE Arr(Flatten([idx \in 1 .. Len(accountContainers) |->
                                 extractAccount(accountContainers[idx], idx - 1, cfg)]))
        inSection(found) ==
            IF found = 0 THEN Arr(<<>>) ELSE each(doc.sections[found].accounts)
    IN  inSection(accountHistorySection(doc))

\* extractAccountHistory whose catch returns null instead of the empty list
extractAccountHistory_null(pg, config) ==
    LET orNull(accounts) == IF accounts = Throw THEN Null ELSE accounts
    IN  orNull(Evaluate(pg, "accountHistory", accountHistoryCallback(pg.doc, config)))

extractAccountHistory(pg, config) ==
    LET orEmpty(accounts) == IF accounts = Throw THEN Arr(<<>>) ELSE accounts
    IN  orEmpty(Evaluate(pg, "accountHistory", accountHistoryCallback(pg.doc, config)))

\* the defaults of { limit = 20, offset = 0 }
DefaultLimit == 20
DefaultOffset == 0

\* Array.prototype.slice(start, end) for 0 <= start
Slice(seq, start, end) ==
    LET lo == IF start > Len(seq) THEN Len(seq) ELSE start
        hi == IF end > Len(seq) THEN Len(seq) ELSE end
    IN  IF hi <= lo THEN <<>> ELSE SubSeq(seq, lo + 1, hi)

\* extractAccountHistoryPaginated whose window is slice(offset, limit)
extractAccountHistoryPaginated_sliceToLimit(pg, config, opts) ==
    LET window(allAccounts, limit, offset) ==
            [accounts |-> Arr(Slice(allAccounts, offset, limit)),
             total    |-> IntNum(Len(allAccounts)),
             hasMore  |-> Bool((offset + limit) < Len(allAccounts)),
             limit    |-> IntNum(limit),
             offset   |-> IntNum(offset)]
    IN  window(extractAccountHistory(pg, config).items,
               IF Get(opts, "limit") = Undefined THEN DefaultLimit ELSE opts.limit.m,
               IF Get(opts, "offset") = Undefined THEN DefaultOffset ELSE opts.offset.m)

\* opts is the accountHistory options object; limit and offset are numbers
\* or absent (they default to 20 and 0)
extractAccountHistoryPaginated(pg, config, opts) ==
    LET window(allAccounts, limit, offset) ==
            [accounts |-> Arr(Slice(allAccounts, offset, offset + limit)),
             total    |-> IntNum(Len(allAccounts)),
             hasMore  |-> Bool((offset + limit) < Len(allAccounts)),
             limit    |-> IntNum(limit),
             offset   |-> IntNum(offset)]
    IN  window(extractAccountHistory(pg, config).items,
               IF Get(opts, "limit") = Undefined THEN DefaultLimit ELSE opts.limit.m,
               IF Get(opts, "offset") = Undefined THEN DefaultOffset ELSE opts.offset.m)

-----------------------------------------------------------------------------
(* utils/extractors/contact-extractor.js *)

ShowText == <<"s","h","o","w">>

ToLower(c) == CASE c = "S" -> "s" [] c = "H" -> "h" [] c = "O" -> "o"
                [] c = "W" -> "w" [] OTHER -> c

ContainsPseudoClass == <<":", "c", "o", "n", "t", "a", "i", "n", "s", "(">>

\* the selector is one a CSS selector engine parses: :contains() is an
\* extension of jQuery-like engines and no CSS pseudo-class
IsCssSelector(selector) == ~Includes(selector, ContainsPseudoClass)

\* the argument of :contains("...") in a selector that has one
ContainsArgument(selector) ==
    LET open == CHOOSE i \in 1 .. Len(selector) :
                    /\ SubSeq(selector, i, i + Len(ContainsPseudoClass) - 1)
                           = ContainsPseudoClass
                    /\ \A j \in 1 .. i - 1 :
                           SubSeq(selector, j, j + Len(ContainsPseudoClass) - 1)
                              # ContainsPseudoClass
        first == open + Len(ContainsPseudoClass) + 1          \* after the quote
        last  == CHOOSE i \in first - 1 .. Len(selector) :
                    /\ selector[i + 1] = "\""
                    /\ \A j \in first .. i : selector[j] # "\""
    IN  SubSeq(selector, first, last)

\* document.querySelectorAll(selector), elements being what the selector
\* matches: a CSS engine throws a SyntaxError for a selector it cannot parse
querySelectorAll(doc, selector, elements) ==
    IF doc.selectors = "css" /\ ~IsCssSelector(selector) THEN Throw ELSE Arr(elements)

\* the buttons the first callback clicks: of those the selector matches (an
\* engine that resolves :contains() matches the text as it is written), the
\* ones whose lower-cased label contains "show"
showButtons(doc, cfg) ==
    {i \in 1 .. Len(doc.buttons) :
        /\ IsCssSelector(cfg.showButtonSelector)
              \/ Includes(doc.buttons[i], ContainsArgument(cfg.showButtonSelector))
        /\ Includes([j \in 1 .. Len(Trim(doc.buttons[i])) |-> ToLower(Trim(doc.buttons[i])[j])],
                    ShowText)}

\* the number of buttons clicked
showButtonsCallback(doc, cfg) ==
    IF querySelectorAll(doc, cfg.showButtonSelector, doc.buttons) = Throw THEN Throw
    ELSE IntNum(Cardinality(showButtons(doc, cfg)))

contactsCallback(doc, cfg) ==
    LET contactOf(container) ==
            [name \in Range(cfg.fields) |->
                OrElse(TrimmedText(container[name]), Null)]
        hasData(contact) ==
            \E name \in DOMAIN contact : contact[name] # Null /\ contact[name] # Str(<<>>)
    IN  IF querySelectorAll(doc, cfg.contactContainerSelector, doc.contacts) = Throw
        THEN Throw
        ELSE Arr(Flatten([i \in 1 .. Len(doc.contacts) |->
                    IF hasData(contactOf(doc.contacts[i]))
                    THEN <<contactOf(doc.contacts[i])>> ELSE <<>>]))

extractCreditorContacts(pg, config) ==
    LET expandedCount == Evaluate(pg, "showButtons", showButtonsCallback(pg.doc, config))
        contacts == Evaluate(pg, "contacts", contactsCallback(pg.doc, config))
    IN  IF expandedCount = Throw \/ contacts = Throw THEN Arr(<<>>) ELSE contacts

-----------------------------------------------------------------------------
(* ExtractionService.extractAll3BReport : one block per section.  A block   *)
(* maps raw3BData to raw3BData after the block; it is Throw when an          *)
(* exception escapes the block (and with it the whole call).                 *)

SectionNames == {"scores", "personalInfo", "summary", "accountHistory",
                 "publicRecords", "inquiries", "creditorContacts"}

\* shouldExtractAll || sections.includes(name)
Requested(opts, name) == "all" \in opts.sections \/ name \in opts.sections

\* try { raw3BData[key] = await ... } catch (error) { raw3BData[key] = fallback }
Caught(result, fallback) == IF result = Throw THEN fallback ELSE result

scoresBlock(raw, pg, opts) ==
    IF ~Requested(opts, "scores") THEN raw
    ELSE Put(raw, "scores", Caught(extractScores(pg), Null))

personalInfoBlock(raw, pg, opts) ==
    IF ~Requested(opts, "personalInfo") THEN raw
    ELSE Put(raw, "personalInfo",
             Caught(extractGridData(pg, extractorConfig.personalInfo), Null))

\* the merge of the three counters into the bureau maps of the summary
mergeSummary(summary, summaryDetails) ==
    IF Truthy(summaryDetails) /\ Truthy(summary)
    THEN [b \in BureauSet |-> Spread(summary[b], summaryDetails[b])]
    ELSE summary

\* summaryBlock without its try/catch and without the null guard of the merge:
\* assigning into a null summary throws out of extractAll3BReport
summaryBlock_unguarded(raw, pg, opts) ==
    IF ~Requested(opts, "summary") THEN raw
    ELSE LET summary == extractGridData(pg, extractorConfig.summary)
             summaryDetails == extractSummaryDetails(pg)
         IN  IF Truthy(summaryDetails) /\ ~Truthy(summary) THEN Throw
             ELSE Put(raw, "summary", mergeSummary(summary, summaryDetails))

summaryBlock(raw, pg, opts) ==
    IF ~Requested(opts, "summary") THEN raw
    ELSE LET summary == extractGridData(pg, extractorConfig.summary)
             summaryDetails == extractSummaryDetails(pg)
         IN  IF summary = Throw \/ summaryDetails = Throw
             THEN Put(raw, "summary", Null)
             ELSE Put(raw, "summary", mergeSummary(summary, summaryDetails))

\* accountHistoryBlock that paginates when a limit or an offset is given
accountHistoryBlock_anyOption(raw, pg, opts) ==
    IF ~Requested(opts, "accountHistory") THEN raw
    ELSE IF opts.accountHistory # EmptyObj
    THEN LET store(paginatedResult) ==
                 Put(Put(raw, "accountHistory", paginatedResult.accounts),
                     "accountHistoryPagination",
                     [total   |-> paginatedResult.total,
                      limit   |-> paginatedResult.limit,
                      offset  |-> paginatedResult.offset,
                      hasMore |-> paginatedResult.hasMore])
         IN  store(extractAccountHistoryPaginated(pg, extractorConfig.accountHistory,
                                                  opts.accountHistory))
    ELSE Put(raw, "accountHistory",
             extractAccountHistory(pg, extractorConfig.accountHistory))

accountHistoryBlock(raw, pg, opts) ==
    IF ~Requested(opts, "accountHistory") THEN raw
    ELSE IF Get(opts.accountHistory, "limit") # Undefined          \* usePagination
    THEN LET store(paginatedResult) ==
                 Put(Put(raw, "accountHistory", paginatedResult.accounts),
                     "accountHistoryPagination",
                     [total   |-> paginatedResult.total,
                      limit   |-> paginatedResult.limit,
                      offset  |-> paginatedResult.offset,
                      hasMore |-> paginatedResult.hasMore])
         IN  store(extractAccountHistoryPaginated(pg, extractorConfig.accountHistory,
                                                  opts.accountHistory))
    ELSE Put(raw, "accountHistory",
             extractAccountHistory(pg, extractorConfig.accountHistory))

publicRecordsBlock(raw, pg, opts) ==
    IF ~Requested(opts, "publicRecords") THEN raw
    ELSE Put(raw, "publicRecords", Caught(extractPublicRecords(pg), Null))

inquiriesBlock(raw, pg, opts) ==
    IF ~Requested(opts, "inquiries") THEN raw
    ELSE Put(raw, "inquiries", Caught(extractInquiries(pg), Null))

creditorContactsBlock(raw, pg, opts) ==
    IF ~Requested(opts, "creditorContacts") THEN raw
    ELSE Put(raw, "creditorContacts",
             Caught(extractCreditorContacts(pg, extractorConfig.creditorContacts),
                    Arr(<<>>)))

\* the block of section s
BlockOf(s, raw, pg, opts) ==
    CASE s = "scores"           -> scoresBlock(raw, pg, opts)
      [] s = "personalInfo"     -> personalInfoBlock(raw, pg, opts)
      [] s = "summary"          -> summaryBlock(raw, pg, opts)
      [] s = "accountHistory"   -> accountHistoryBlock(raw, pg, opts)
      [] s = "publicRecords"    -> publicRecordsBlock(raw, pg, opts)
      [] s = "inquiries"        -> inquiriesBlock(raw, pg, opts)
      [] s = "creditorContacts" -> creditorContactsBlock(raw, pg, opts)

\* extractAll3BReport(page, options) as a whole: the blocks in order, each
\* on the map the previous one left
extractAll3BReport(pg, opts) ==
    LET after(s, raw) == IF raw = Throw THEN Throw ELSE BlockOf(s, raw, pg, opts)
    IN  after("creditorContacts",
          after("inquiries",
            after("publicRecords",
              after("accountHistory",
                after("summary",
                  after("personalInfo",
                    after("scores", EmptyObj)))))))

-----------------------------------------------------------------------------
(* utils/parser.js : the section parsers *)

\* a ?? b
Coalesce(a, b) == IF a = Null \/ a = Undefined THEN b ELSE a

\* new Date().toISOString() at clock value t
IsoTime(t) == [js |-> "isotime", t |-> t]

DefaultBoostDescription ==
    <<"P","a","y","m","e","n","t"," ","a","n","d"," ","s","p","e","n","d","i",
      "n","g"," ","i","m","p","a","c","t">>
ScoreBuilderDescription ==
    <<"T","a","k","i","n","g"," ","a","c","t","i","o","n"," ","d","i","r","e",
      "c","t","l","y"," ","w","i","t","h"," ","t","h","e"," ","s","o","u","r",
      "c","e">>

buildCreditScoreData(rawData, t) ==
    [credit_score_info |->
        [current_score  |-> Coalesce(Get(rawData, "currentScore"), Null),
         score_date     |-> Coalesce(Get(rawData, "scoreDate"), Null),
         starting_score |-> Coalesce(Get(rawData, "startingScore"), Null),
         points_gained  |-> Coalesce(Get(rawData, "pointsGained"), Null)],
     score_tracker |->
        [current_score  |-> Coalesce(Get(rawData, "currentScore"), Null),
         starting_score |-> Coalesce(Get(rawData, "startingScore"), Null),
         points_added   |-> Coalesce(Get(rawData, "pointsGained"), Null)],
     score_builder |->
        [potential_boost |-> Coalesce(Get(rawData, "scoreBuilderBoost"), Null),
         description     |-> Str(ScoreBuilderDescription)],
     score_boost |->
        [payment_boost   |-> Coalesce(Get(rawData, "paymentBoost"), Null),
         negative_impact |-> Coalesce(Get(rawData, "negativeImpact"), Null),
         description     |-> OrElse(Get(rawData, "scoreBoostDescription"),
                                    Str(DefaultBoostDescription))],
     future_score |-> Coalesce(Get(rawData, "futureScore"), Null),
     scraped_at   |-> IsoTime(t)]

parsePersonalInfo(rawData) ==
    [credit_report_date |-> cleanText(Get(rawData, "reportDate")),
     name               |-> cleanText(Get(rawData, "name")),
     date_of_birth      |-> cleanText(Get(rawData, "dob")),
     current_address    |-> cleanText(Get(rawData, "currentAddress")),
     previous_address   |-> cleanText(Get(rawData, "previousAddress")),
     employer           |-> cleanText(Get(rawData, "employer"))]

parse3BPersonalInfo(rawData) ==
    [b \in BureauSet |-> parsePersonalInfo(rawData[b])]

parseSummary(rawData) ==
    [total_accounts   |-> extractNumber(OrElse(Get(rawData, "total_accounts"),
                                               Get(rawData, "totalAccounts"))),
     open_accounts    |-> extractNumber(OrElse(Get(rawData, "open_accounts"),
                                               Get(rawData, "openAccounts"))),
     closed_accounts  |-> extractNumber(OrElse(Get(rawData, "closed_accounts"),
                                               Get(rawData, "closedAccounts"))),
     delinquent       |-> extractNumber(Get(rawData, "delinquent")),
     derogatory       |-> extractNumber(Get(rawData, "derogatory")),
     balances         |-> cleanText(Get(rawData, "balances")),
     payments         |-> cleanText(Get(rawData, "payments")),
     public_records   |-> extractNumber(Get(rawData, "publicRecords")),
     inquiries_2years |-> extractNumber(Get(rawData, "inquiries"))]

parse3BSummary(rawData) ==
    [b \in BureauSet |-> parseSummary(rawData[b])]

-----------------------------------------------------------------------------
(* services/report-builder.js *)

DashText == <<"-">>
NAText   == <<"N", "/", "A">>

\* ReportBuilder.cleanText without its own placeholders: the parser's cleanText
builderCleanText_parserOnly(text) == cleanText(text)

\* ReportBuilder.cleanText
builderCleanText(text) ==
    IF ~Truthy(text) \/ text = Str(DashText) \/ text = Str(NAText) \/ text = Str(<<>>)
    THEN Null
    ELSE cleanText(text)

\* ReportBuilder.parseDate
builderParseDate(dateStr) ==
    IF ~Truthy(dateStr) \/ dateStr = Str(DashText) \/ dateStr = Str(NAText)
    THEN Null
    ELSE parseScoreDate(dateStr)

DateFields == {"last_verified", "date_last_activity", "date_reported",
               "date_opened", "closed_date", "last_payment"}

parsedAccountFieldNames ==
    {"account_number", "high_balance", "last_verified", "date_last_activity",
     "date_reported", "date_opened", "balance_owed", "closed_date",
     "account_rating", "account_description", "dispute_status", "creditor_type",
     "account_status", "payment_status", "creditor_remarks", "payment_amount",
     "last_payment", "term_length", "past_due_amount", "account_type",
     "payment_frequency", "credit_limit"}

\* parseAccountFields with one more output field than the configured list
parseAccountFields_extraField(rawFields) ==
    IF ~Truthy(rawFields) THEN Null
    ELSE [f \in parsedAccountFieldNames \cup {"monthly_payment"} |->
             IF f \in DateFields THEN builderParseDate(Get(rawFields, f))
             ELSE builderCleanText(Get(rawFields, f))]

\* ReportBuilder.parseAccountFields
parseAccountFields(rawFields) ==
    IF ~Truthy(rawFields) THEN Null
    ELSE [f \in parsedAccountFieldNames |->
             IF f \in DateFields THEN builderParseDate(Get(rawFields, f))
             ELSE builderCleanText(Get(rawFields, f))]

\* one element of rawAccounts.map(...): the parsed account, or the raw account
\* itself when a transform throws
parseAccount(account) ==
    LET threw(parsed) ==
            \/ parsed.account_name = Throw
            \/ \E b \in BureauSet :
                   /\ parsed[b] # Null
                   /\ \E f \in parsedAccountFieldNames : parsed[b][f] = Throw
        orRaw(parsed) == IF threw(parsed) THEN account ELSE parsed
    IN  orRaw([account_name |-> builderCleanText(Get(account, "account_name")),
               transunion   |-> parseAccountFields(Get(account, "transunion")),
               experian     |-> parseAccountFields(Get(account, "experian")),
               equifax      |-> parseAccountFields(Get(account, "equifax")),
               payment_history |-> OrElse(Get(account, "payment_history"), Null),
               days_late       |-> OrElse(Get(account, "days_late"), Null)])

parseAccountHistory(rawAccounts) ==
    IF ~IsArray(rawAccounts) \/ Len(rawAccounts.items) = 0 THEN Arr(<<>>)
    ELSE Arr([i \in 1 .. Len(rawAccounts.items) |-> parseAccount(rawAccounts.items[i])])

\* the report object literal of buildFullReport, at clock value t
reportSections(rawData, opts, t) ==
    [dashboard_summary |->
         IF opts.includeDashboard /\ Truthy(Get(rawData, "dashboardScores"))
         THEN buildCreditScoreData(rawData.dashboardScores, t) ELSE Null,
     credit_scores_3b |-> OrElse(Get(rawData, "scores"), Null),
     personal_information |->
         IF Truthy(Get(rawData, "personalInfo"))
         THEN parse3BPersonalInfo(rawData.personalInfo) ELSE Null,
     summary |->
         IF Truthy(Get(rawData, "summary"))
         THEN parse3BSummary(rawData.summary) ELSE Null,
     account_history |->
         IF Truthy(Get(rawData, "accountHistory"))
         THEN parseAccountHistory(rawData.accountHistory) ELSE Null,
     public_records    |-> OrElse(Get(rawData, "publicRecords"), Null),
     inquiries         |-> OrElse(Get(rawData, "inquiries"), Null),
     creditor_contacts |-> OrElse(Get(rawData, "creditorContacts"), Null),
     scraped_at        |-> IsoTime(t)]

\* if (rawData.accountHistoryPagination) report.account_history_pagination = ...
withPagination(report_, rawData) ==
    IF Truthy(Get(rawData, "accountHistoryPagination"))
    THEN Put(report_, "account_history_pagination", rawData.accountHistoryPagination)
    ELSE report_

\* buildFullReport that leaves out the keys of the sections it has no data for
buildFullReport_sparse(rawData, opts, t) ==
    LET present(sections) ==
            [k \in {key \in DOMAIN sections : sections[key] # Null} |-> sections[k]]
    IN  [report  |-> withPagination(present(reportSections(rawData, opts, t)), rawData),
         rawData |-> rawData]

\* buildFullReport that stores the parsed accounts back into rawData
buildFullReport_inPlace(rawData, opts, t) ==
    LET stored(sections) ==
            [report  |-> withPagination(sections, rawData),
             rawData |-> IF "accountHistory" \in DOMAIN rawData
                         THEN Put(rawData, "accountHistory", sections.account_history)
                         ELSE rawData]
    IN  stored(reportSections(rawData, opts, t))

\* buildFullReport(rawData, options) at clock value t.  The result holds the
\* report and rawData as the call leaves it (the builder only reads rawData)
buildFullReport(rawData, opts, t) ==
    [report  |-> withPagination(reportSections(rawData, opts, t), rawData),
     rawData |-> rawData]

requiredSections == <<"credit_scores_3b", "personal_information", "summary">>

\* validateReport that also requires the account history
validateReport_allSections(report_) ==
    LET required == requiredSections \o <<"account_history">>
        result(missing) == [valid |-> Bool(Len(missing) = 0), missing |-> Arr(missing)]
    IN  [result |-> result(SelectSeq2(required,
                                      {section \in Range(required) :
                                          ~Truthy(Get(report_, section))})),
         report |-> report_]

\* validateReport(report).  The result holds the returned {valid, missing}
\* and report as the call leaves it (the validator only reads report)
validateReport(report_) ==
    LET result(missing) == [valid |-> Bool(Len(missing) = 0), missing |-> Arr(missing)]
    IN  [result |-> result(SelectSeq2(requiredSections,
                                      {section \in Range(requiredSections) :
                                          ~Truthy(Get(report_, section))})),
         report |-> report_]

-----------------------------------------------------------------------------
(* Documents.  GoodDoc is a complete report page: score elements, the       *)
(* Personal Information, Summary, Account History and Inquiries sections,    *)
(* "Show" buttons and creditor contacts.  Every family of initial states     *)
(* varies it in one direction.                                               *)

LabelColumn == <<<<"L">>>>

PersonalColumn == <<<<"T", "U">>, <<"0", "1", "/", "0", "7", "/", "2", "0", "2", "6">>, <<"J", " ", "D", "o", "e", " ">>, <<" ", "0", "1", "/", "0", "1", "/", "1", "9", "9", "0">>, <<"1", " ", "M", "a", "i", "n">>, <<"-", "-">>, <<>>>>

SummaryColumnOf(total) ==
    <<<<"T", "U">>, total, <<"8">>, <<"2">>, <<"0">>, <<"1">>, <<"$", "5", "0", ",", "0", "0", "0">>, <<" ", "$", "1", ",", "5", "0", "0">>, <<"0">>, <<"2">>>>

GoodPersonalGrid == <<LabelColumn, PersonalColumn, PersonalColumn, PersonalColumn>>
GoodSummaryGrid ==
    <<LabelColumn, SummaryColumnOf(<<"1", "0">>), SummaryColumnOf(<<"1", "1">>), SummaryColumnOf(<<"1", "2">>)>>

AccountColumn == <<<<"T", "U">>, <<"5", "9", "6", "2", "*">>, <<"$", "4", "4", "9", ",", "2", "5", "0">>, <<"1", "2", "/", "1", "0", "/", "2", "0", "2", "5">>, <<"-", "-">>, <<" ", "1", "/", "5", "/", "2", "0", "2", "4", " ">>>>

GoodMonth(label) ==
    [classes |-> <<<<"m", "b", "-", "1">>, <<"s", "t", "a", "t", "u", "s", "-", "C">>>>, badge |-> Str(<<"O", "K">>), label |-> Str(label)]
GoodPaymentHistory ==
    LET block == [months |-> <<GoodMonth(<<"A", "u", "g">>), GoodMonth(<<"S", "e", "p">>)>>]
    IN  [blocks |-> <<block, block, block>>]
GoodDaysLate ==
    LET column == [values |-> <<<<"0">>, <<"1">>>>]
    IN  [grid |-> [cols |-> <<column, column, column>>]]

\* an account container with the given name element and optional sub-structures
Container(name, grid, ph, dl) == [name |-> name, grid |-> grid, ph |-> ph, dl |-> dl]
GoodAccountGrid ==
    [columns |-> <<LabelColumn, AccountColumn, AccountColumn, AccountColumn>>]
AccountNamed(n) == Str(<<"B", "A", "N", "K", " ">> \o NatToChars(n))
GoodContainer(n) ==
    Container(AccountNamed(n), GoodAccountGrid, GoodPaymentHistory, GoodDaysLate)

Section(h5, grids, accounts, rows) ==
    [h5 |-> h5, grids |-> grids, accounts |-> accounts, rows |-> rows]

GoodRows == <<<<<<"C", "A", "P", " ", "O", "N", "E">>, <<"0", "1", "/", "0", "5", "/", "2", "0", "2", "5">>, <<"E", "x", "p", "e", "r", "i", "a", "n">>>>,
              <<<<>>, <<"0", "2", "/", "0", "6", "/", "2", "0", "2", "5">>, <<"E", "q", "u", "i", "f", "a", "x">>>>,
              <<<<"A", "M", "E", "X">>, <<"0", "3", "/", "0", "7", "/", "2", "0", "2", "5">>>>>>

GoodContact ==
    [company_name |-> Str(<<"A", "c", "m", "e">>), phone |-> Str(<<"5", "5", "5">>), address |-> NoEl, email |-> NoEl]
EmptyContact ==
    [company_name |-> Str(<<" ">>), phone |-> NoEl, address |-> NoEl, email |-> NoEl]

GoodScoreEls == <<<<"7", "7", "0">>, <<" ", "7", "9", "0">>, <<"7", "8", "9">>>>

\* the document with the given score elements, grids, containers, inquiries
\* heading and contacts
Doc(scoreEls, personalGrids, summaryGrids, containers, inquiriesH5, contacts) ==
    [scoreEls |-> scoreEls,
     scoreSection |-> NoEl,
     sections |-> <<Section(<<<<"P", "e", "r", "s", "o", "n", "a", "l">>>>, personalGrids, <<>>, <<>>),
                    Section(<<<<"S", "u", "m", "m", "a", "r", "y">>>>, summaryGrids, <<>>, <<>>),
                    Section(<<AccountHistoryText>>, <<>>, containers, <<>>),
                    Section(<<inquiriesH5>>, <<>>, <<>>, GoodRows)>>,
     buttons  |-> <<<<"S", "h", "o", "w">>, <<"H", "i", "d", "e">>>>,
     contacts |-> contacts,
     selectors |-> "css"]

InquiriesText == extractorConfig.inquiries.sectionHeading

GoodDoc ==
    Doc(GoodScoreEls, <<GoodPersonalGrid>>, <<GoodSummaryGrid>>,
        <<GoodContainer(1), GoodContainer(2)>>, InquiriesText,
        <<GoodContact, EmptyContact>>)

-----------------------------------------------------------------------------
(* The run: extractAll3BReport block by block, then buildFullReport twice    *)
(* and validateReport                                                        *)

NoReport == Undefined
NoResult == Undefined

\* new ExtractionService() and the ReportBuilder singleton: the fields their
\* constructors set
Services == [extractorConfig |-> extractorConfig, parser |-> "utils/parser"]

\* no document operation has been issued and no delay is armed, and the
\* server has no other run in progress
NoOperation ==
    /\ inflight = {}
    /\ awaiting = "none"
    /\ issued = 0
    /\ completed = {}
    /\ clicked = {}
    /\ timer = [armed |-> FALSE, elapsed |-> 0]
    /\ runs = <<>>
    /\ service = Services
    /\ request = NoRequest

\* the end of a block of extractAll3BReport: its result is stored and the
\* function moves on to position nxt, or the exception leaves the function
Continue(result, nxt) ==
    /\ IF result = Throw
       THEN /\ outcome' = "rejected"
            /\ pc' = "failed"
            /\ UNCHANGED raw3BData
       ELSE /\ raw3BData' = result
            /\ pc' = nxt
            /\ outcome' = IF nxt = "extracted" THEN "returned" ELSE "running"
    /\ UNCHANGED <<page, options, buildOpts, report, report2, validation, now>>
    /\ UNCHANGED transformVars
    /\ UNCHANGED runVars
    /\ UNCHANGED opVars

ExtractScores ==
    /\ pc = "scores"
    /\ outcome = "running"
    /\ Continue(scoresBlock(raw3BData, page, options), "personalInfo")

ExtractPersonalInfo ==
    /\ pc = "personalInfo"
    /\ outcome = "running"
    /\ Continue(personalInfoBlock(raw3BData, page, options), "summary")

ExtractSummary ==
    /\ pc = "summary"
    /\ outcome = "running"
    /\ Continue(summaryBlock(raw3BData, page, options), "accountHistory")

ExtractAccountHistory ==
    /\ pc = "accountHistory"
    /\ outcome = "running"
    /\ Continue(accountHistoryBlock(raw3BData, page, options), "publicRecords")

ExtractPublicRecords ==
    /\ pc = "publicRecords"
    /\ outcome = "running"
    /\ Continue(publicRecordsBlock(raw3BData, page, options), "inquiries")

ExtractInquiries ==
    /\ pc = "inquiries"
    /\ outcome = "running"
    /\ Continue(inquiriesBlock(raw3BData, page, options), "creditorContacts")

ExtractCreditorContacts ==
    /\ pc = "creditorContacts"
    /\ outcome = "running"
    /\ Continue(creditorContactsBlock(raw3BData, page, options), "extracted")

\* reportBuilder.buildFullReport(raw3BData, buildOpts); the clock may advance
BuildReport ==
    /\ pc = "extracted"
    /\ \E built \in {buildFullReport(raw3BData, buildOpts, now)} :
           /\ report' = built.report
           /\ raw3BData' = built.rawData
    /\ pc' = "built"
    /\ now' \in {now, now + 1}
    /\ UNCHANGED <<page, options, buildOpts, outcome, report2, validation>>
    /\ UNCHANGED transformVars
    /\ UNCHANGED runVars
    /\ UNCHANGED opVars

\* a second buildFullReport call on the same raw3BData
BuildAgain ==
    /\ pc = "built"
    /\ \E built \in {buildFullReport(raw3BData, buildOpts, now)} :
           /\ report2' = built.report
           /\ raw3BData' = built.rawData
    /\ pc' = "rebuilt"
    /\ now' \in {now, now + 1}
    /\ UNCHANGED <<page, options, buildOpts, outcome, report, validation>>
    /\ UNCHANGED transformVars
    /\ UNCHANGED runVars
    /\ UNCHANGED opVars

\* reportBuilder.validateReport(report) on the report that was built
ValidateReport ==
    /\ pc = "rebuilt"
    /\ \E validated \in {validateReport(report)} :
           /\ validation' = validated.result
           /\ report' = validated.report
    /\ pc' = "validated"
    /\ UNCHANGED <<page, options, buildOpts, outcome, raw3BData, report2, now>>
    /\ UNCHANGED transformVars
    /\ UNCHANGED runVars
    /\ UNCHANGED opVars

\* extractAll3BReport followed by buildFullReport, as the server calls them
Next ==
    \/ ExtractScores
    \/ ExtractPersonalInfo
    \/ ExtractSummary
    \/ ExtractAccountHistory
    \/ ExtractPublicRecords
    \/ ExtractInquiries
    \/ ExtractCreditorContacts
    \/ BuildReport

\* the state in which extractAll3BReport(pg, opts) has just been called
Called(pg, opts, bopts) ==
    /\ page = pg
    /\ options = opts
    /\ buildOpts = bopts
    /\ pc = "scores"
    /\ outcome = "running"
    /\ raw3BData = EmptyObj
    /\ report = NoReport
    /\ report2 = NoReport
    /\ validation = NoReport
    /\ now = 0
    /\ input = Undefined
    /\ output = NoResult
    /\ NoOperation

-----------------------------------------------------------------------------
(* Spec: section failures.  Each page has at most MaxFailures failure       *)
(* points (a missing structure, or a page.evaluate call that rejects), or    *)
(* is unusable: every call rejects.  Every set of sections is requested.     *)

Slots == {"scores", "personalInfo", "summary", "accountHistory", "inquiries",
          "contacts", "textSelectors"}

\* GoodDoc without the structures named in missing, read through an engine
\* that resolves text-matching selectors unless that is missing too
DocWithout(missing) ==
    [selectors |-> IF "textSelectors" \in missing THEN "css" ELSE "extended"] @@
    Doc(IF "scores" \in missing THEN <<>> ELSE GoodScoreEls,
        IF "personalInfo" \in missing THEN <<>> ELSE <<GoodPersonalGrid>>,
        IF "summary" \in missing THEN <<>> ELSE <<GoodSummaryGrid>>,
        IF "accountHistory" \in missing THEN <<>>
                                        ELSE <<GoodContainer(1), GoodContainer(2)>>,
        IF "inquiries" \in missing THEN InquiriesText \o <<" ", "2">> ELSE InquiriesText,
        IF "contacts" \in missing THEN <<>> ELSE <<GoodContact, EmptyContact>>)

FailurePlans ==
    {plan \in (SUBSET Slots) \X (SUBSET Ops) :
        Cardinality(plan[1]) + Cardinality(plan[2]) <= MaxFailures}
    \cup {<<{}, Ops>>}

SectionRequests == {{"all"}} \cup SUBSET SectionNames

Init ==
    \E plan \in FailurePlans, requested \in SectionRequests :
        Called([doc |-> DocWithout(plan[1]), rejects |-> plan[2]],
               [sections |-> requested, accountHistory |-> EmptyObj],
               [includeDashboard |-> FALSE])

Spec == Init /\ [][Next]_vars

-----------------------------------------------------------------------------
(* SpecGrid: cell texts.  The page is complete and every call succeeds; one  *)
(* cell of the Personal Information grid or of the Summary grid carries one  *)
(* of CellTexts.  Every section is requested.                                *)

CellTexts ==
    {<<>>, <<" ">>, <<"-", "-">>, <<"N", "/", "A">>, <<"0">>, <<" ", "7", " ">>,
     <<"$", "1", ",", "5", "0", "0">>, <<"J", " ", " ", "D", "o", "e">>,
     <<"1", "/", "5", "/", "2", "0", "2", "4">>}

\* grid with the cell at column col, row row (1 is the header) replaced
GridWith(grid, col, row, text) == [grid EXCEPT ![col][row] = text]

GridDocs ==
    {Doc(GoodScoreEls, <<GridWith(GoodPersonalGrid, col, row, text)>>,
         <<GoodSummaryGrid>>, <<GoodContainer(1), GoodContainer(2)>>, InquiriesText,
         <<GoodContact, EmptyContact>>) :
        col \in 2 .. 4, row \in 2 .. Len(PersonalColumn), text \in CellTexts}
    \cup
    {Doc(GoodScoreEls, <<GoodPersonalGrid>>,
         <<GridWith(GoodSummaryGrid, col, row, text)>>,
         <<GoodContainer(1), GoodContainer(2)>>, InquiriesText,
         <<GoodContact, EmptyContact>>) :
        col \in 2 .. 4, row \in 2 .. Len(GoodSummaryGrid[2]), text \in CellTexts}

InitGrid ==
    \E doc \in GridDocs :
        Called([doc |-> doc, rejects |-> {}],
               [sections |-> {"all"}, accountHistory |-> EmptyObj],
               [includeDashboard |-> FALSE])

SpecGrid == InitGrid /\ [][Next]_vars

-----------------------------------------------------------------------------
(* SpecAccounts: account containers and pagination.  The Account History    *)
(* section holds up to MaxAccounts containers, each complete, with a         *)
(* payment-history or days-late block whose query throws, or without a grid; *)
(* the accountHistory options carry no limit, or a limit and an optional     *)
(* offset up to MaxLimit.  One more page is the report of 34 accounts read   *)
(* with limit 20 and offset 0.                                               *)

ContainerKinds == {"good", "badPaymentHistory", "badDaysLate", "noGrid"}

KindContainer(kind, n) ==
    Container(AccountNamed(n),
              IF kind = "noGrid" THEN NoEl ELSE GoodAccountGrid,
              IF kind = "badPaymentHistory" THEN Malformed ELSE GoodPaymentHistory,
              IF kind = "badDaysLate" THEN Malformed ELSE GoodDaysLate)

AccountsDoc(containers) ==
    Doc(GoodScoreEls, <<GoodPersonalGrid>>, <<GoodSummaryGrid>>, containers,
        InquiriesText, <<GoodContact, EmptyContact>>)

KindSeqs == UNION {[1 .. n -> ContainerKinds] : n \in 0 .. MaxAccounts}

\* { limit, offset } objects: no limit at all (with or without an offset), or
\* a limit with or without offset
PaginationOptions ==
    {EmptyObj}
    \cup {[k \in {"offset"} |-> IntNum(offset)] : offset \in 1 .. MaxLimit}
    \cup {[k \in {"limit"} |-> IntNum(limit)] : limit \in 0 .. MaxLimit}
    \cup {[limit |-> IntNum(limit), offset |-> IntNum(offset)] :
             limit \in 0 .. MaxLimit, offset \in 0 .. MaxLimit}

InitAccounts ==
    \/ \E kinds \in KindSeqs, pagination \in PaginationOptions :
          Called([doc |-> AccountsDoc([i \in 1 .. Len(kinds) |->
                                          KindContainer(kinds[i], i)]),
                  rejects |-> {}],
                 [sections |-> {"accountHistory"}, accountHistory |-> pagination],
                 [includeDashboard |-> FALSE])
    \/ Called([doc |-> AccountsDoc([i \in 1 .. 34 |-> GoodContainer(i)]),
               rejects |-> {}],
              [sections |-> {"accountHistory"},
               accountHistory |-> [limit |-> IntNum(20), offset |-> IntNum(0)]],
              [includeDashboard |-> FALSE])

SpecAccounts == InitAccounts /\ [][Next]_vars

-----------------------------------------------------------------------------
(* SpecBuild: buildFullReport on raw maps.  The run starts where             *)
(* extractAll3BReport has returned.  The raw map holds every combination of  *)
(* absent, null and extracted section entries, or one of several account     *)
(* lists together with dashboard scores and pagination metadata.             *)

GoodPage == [doc |-> GoodDoc, rejects |-> {}]
AllSections == [sections |-> {"all"}, accountHistory |-> EmptyObj]

\* what extractAll3BReport returns for the complete page
GoodRaw ==
    creditorContactsBlock(
      inquiriesBlock(
        publicRecordsBlock(
          accountHistoryBlock(
            summaryBlock(
              personalInfoBlock(
                scoresBlock(EmptyObj, GoodPage, AllSections),
                GoodPage, AllSections),
              GoodPage, AllSections),
            GoodPage, AllSections),
          GoodPage, AllSections),
        GoodPage, AllSections),
      GoodPage, AllSections)

PresenceRaws ==
    {[s \in {k \in SectionNames : choice[k] # "absent"} |->
         IF choice[s] = "null" THEN Null ELSE GoodRaw[s]] :
        choice \in [SectionNames -> {"absent", "null", "value"}]}

\* a bureau map that carries only some of the configured fields
PartialFields ==
    [account_number |-> Str(<<"5", "9", "6", "2", "*">>),
     high_balance   |-> Str(<<"$", "4", "4", "9">>),
     last_verified  |-> Str(<<"1", "2", "/", "1", "0", "/", "2", "0", "2", "5">>)]

PartialAccount ==
    [account_name |-> Str(<<"R", "P">>), transunion |-> PartialFields,
     experian |-> PartialFields, equifax |-> PartialFields]

RawAccountLists ==
    {Arr(<<>>),
     GoodRaw["accountHistory"],
     Arr(<<PartialAccount>>),
     \* an account one bureau does not report
     Arr(<<PartialAccount, [PartialAccount EXCEPT !.experian = Null]>>),
     Arr(<<[k \in {"account_name", "transunion", "equifax"} |-> PartialAccount[k]]>>),
     \* a field that is a number, not a string
     Arr(<<[PartialAccount EXCEPT !.transunion.high_balance = IntNum(449),
                                  !.equifax = EmptyObj]>>)}

DashboardScores ==
    [currentScore |-> IntNum(700), scoreDate |-> Str(<<"2", "0", "2", "6">>),
     startingScore |-> IntNum(0), pointsGained |-> Null]

PaginationMeta ==
    [total |-> IntNum(34), limit |-> IntNum(20), offset |-> IntNum(0),
     hasMore |-> Bool(TRUE)]

AccountRaws ==
    {Spread(Put(GoodRaw, "accountHistory", accounts), extra) :
        accounts \in RawAccountLists,
        extra \in {EmptyObj,
                   [k \in {"dashboardScores"} |-> DashboardScores],
                   [k \in {"accountHistoryPagination"} |-> PaginationMeta],
                   [dashboardScores |-> DashboardScores,
                    accountHistoryPagination |-> PaginationMeta]}}

\* the state in which extractAll3BReport has returned raw
Returned(raw, bopts) ==
    /\ page = GoodPage
    /\ options = AllSections
    /\ buildOpts = bopts
    /\ pc = "extracted"
    /\ outcome = "returned"
    /\ raw3BData = raw
    /\ report = NoReport
    /\ report2 = NoReport
    /\ validation = NoReport
    /\ now = 0
    /\ input = Undefined
    /\ output = NoResult
    /\ NoOperation

InitBuild ==
    \/ \E raw \in PresenceRaws : Returned(raw, [includeDashboard |-> FALSE])
    \/ \E raw \in AccountRaws, includeDashboard \in BOOLEAN :
          Returned(raw, [includeDashboard |-> includeDashboard])

NextBuild ==
    \/ BuildReport
    \/ BuildAgain
    \/ ValidateReport

SpecBuild == InitBuild /\ [][NextBuild]_vars

-----------------------------------------------------------------------------
(* SpecCells: cell texts of an account.  The page is complete and every call *)
(* succeeds; one cell of the first account's grid carries one of             *)
(* AccountCellTexts.  The account history is requested.                      *)

AccountCellTexts ==
    {<<>>, <<" ">>, <<"-", "-">>, <<" ", "-", "-", " ">>, <<"-">>,
     <<" ", "-", " ">>, <<"N", "/", "A">>, <<" ", "N", "/", "A", " ">>,
     <<"n", "/", "a">>, <<"$", "4", "4", "9", ",", "2", "5", "0", " ">>,
     <<"1", "2", "/", "1", "0", "/", "2", "0", "2", "5">>,
     <<"O", "p", "e", "n", "e", "d", " ", "1", "/", "5", "/", "2", "0", "2", "4">>,
     <<"1", "3", "/", "4", "5", "/", "2", "0", "2", "5">>,
     <<"1", "2", "/", "1", "0", "/", "2", "5">>}

CellDocs ==
    {AccountsDoc(<<Container(AccountNamed(1),
                             [columns |-> GridWith(GoodAccountGrid.columns, col, row, text)],
                             GoodPaymentHistory, GoodDaysLate),
                   Container(AccountNamed(2), GoodAccountGrid, NoEl, NoEl)>>) :
        col \in 2 .. 4, row \in 2 .. Len(AccountColumn), text \in AccountCellTexts}

InitCells ==
    \E doc \in CellDocs :
        Called([doc |-> doc, rejects |-> {}],
               [sections |-> {"accountHistory"}, accountHistory |-> EmptyObj],
               [includeDashboard |-> FALSE])

SpecCells == InitCells /\ [][Next]_vars
-----------------------------------------------------------------------------
(* SpecTransforms: direct calls of the field transforms.  The argument is    *)
(* a value of any JavaScript type, a number embedded in padding, or a text   *)
(* with or without a date; each of extractNumber, parseScoreDate, cleanText  *)
(* and the two wrappers of the report builder is called with it.             *)

NonStrings ==
    {Null, Undefined, NaN, IntNum(0), IntNum(34), Num(65205, 2), Bool(TRUE),
     Bool(FALSE), EmptyObj, Arr(<<>>), Arr(<<Str(<<"3", "4">>)>>)}

\* padding in front of a number: blanks, currency signs, words, punctuation
PadsBefore ==
    {<<>>, <<" ">>, <<"$">>, <<"$", " ">>, <<"N", "o", ".", " ">>,
     <<"a", " ", "-", " ">>, <<".">>, <<"-">>, <<"+", " ">>,
     <<"p", "t", "s", " ">>}
PadsAfter ==
    {<<>>, <<" ">>, <<" ", "p", "t", "s">>, <<".">>, <<" ", "-", " ", "a">>}
Signs == {<<>>, <<"+">>, <<"-">>}
DigitTexts ==
    {<<"0">>, <<"3", "4">>, <<"1", "6", "8">>, <<"0", "0", "7">>}
\* the digits of an optional decimal part
DecimalTexts == {<<>>, <<"5">>, <<"0", "5">>}

\* sign, digits and decimal part of a number, as it is written
NumberText(sign, digits, decimals) ==
    sign \o digits \o (IF decimals = <<>> THEN <<>> ELSE <<".">> \o decimals)

NumberTexts ==
    {before \o NumberText(sign, digits, decimals) \o after :
        before \in PadsBefore, sign \in Signs, digits \in DigitTexts,
        decimals \in DecimalTexts, after \in PadsAfter}

DatePrefixes ==
    {<<>>, <<"A", "s", " ", "o", "f", " ">>, <<"1">>, <<"x", "/">>,
     <<"1", "2", "/">>}
MonthTexts == {<<"1">>, <<"1", "2">>, <<"1", "3">>}
DayTexts == {<<"5">>, <<"1", "0">>, <<"4", "5">>}
YearTexts == {<<"2", "0", "2", "5">>, <<"2", "0", "2">>, <<"2", "0", "2", "5", "6">>}
DateSuffixes ==
    {<<>>, <<" ">>, <<" ", "1", "/", "2", "/", "2", "0", "2", "4">>,
     <<"/", "7">>}

DateTexts ==
    {prefix \o month \o <<"/">> \o day \o <<"/">> \o year \o suffix :
        prefix \in DatePrefixes, month \in MonthTexts, day \in DayTexts,
        year \in YearTexts, suffix \in DateSuffixes}

PlainTexts ==
    {<<>>, <<" ">>, <<"-", "-">>, <<" ", "-", "-", " ">>, <<"-">>,
     <<"N", "/", "A">>, <<" ", "N", "/", "A">>,
     <<" ", " ", "S", "o", "m", "e", " ", "t", "e", "x", "t", " ", " ">>,
     <<"1", "2", "-", "1", "0", "-", "2", "0", "2", "5">>,
     <<"1", "2", "/", "1", "0", "/", "2", "5">>,
     <<"/", "1", "/", "2", "0", "2", "5">>,
     <<"1", "/", "/", "2", "0", "2", "5">>,
     <<"$", "1", ",", "5", "0", "0">>, <<"J", " ", " ", "D", "o", "e">>}

TransformInputs ==
    NonStrings \cup {Str(chars) : chars \in NumberTexts \cup DateTexts \cup PlainTexts}

\* a call transform(input) that has returned or thrown value
Applied(transform, value) ==
    /\ output' = [fn |-> transform, value |-> value]
    /\ pc' = "applied"
    /\ UNCHANGED <<page, options, buildOpts, outcome, raw3BData, report, report2,
                   validation, now, input>>
    /\ UNCHANGED opVars
    /\ UNCHANGED runVars

\* the numbers of the model have at most MaxDigits digits: extractNumber is
\* called with the texts that hold no more
MaxDigits == 9

ApplyExtractNumber ==
    /\ pc = "transform"
    /\ IsString(input) => Len(KeepNumeric(input.chars)) <= MaxDigits
    /\ Applied("extractNumber", extractNumber(input))

ApplyParseScoreDate ==
    /\ pc = "transform"
    /\ Applied("parseScoreDate", parseScoreDate(input))

ApplyCleanText ==
    /\ pc = "transform"
    /\ Applied("cleanText", cleanText(input))

ApplyBuilderCleanText ==
    /\ pc = "transform"
    /\ Applied("ReportBuilder.cleanText", builderCleanText(input))

ApplyBuilderParseDate ==
    /\ pc = "transform"
    /\ Applied("ReportBuilder.parseDate", builderParseDate(input))

InitTransforms ==
    /\ page = GoodPage
    /\ options = AllSections
    /\ buildOpts = [includeDashboard |-> FALSE]
    /\ pc = "transform"
    /\ outcome = "returned"
    /\ raw3BData = EmptyObj
    /\ report = NoReport
    /\ report2 = NoReport
    /\ validation = NoReport
    /\ now = 0
    /\ input \in TransformInputs
    /\ output = NoResult
    /\ NoOperation

NextTransforms ==
    \/ ApplyExtractNumber
    \/ ApplyParseScoreDate
    \/ ApplyCleanText
    \/ ApplyBuilderCleanText
    \/ ApplyBuilderParseDate

SpecTransforms == InitTransforms /\ [][NextTransforms]_vars
-----------------------------------------------------------------------------
(* SpecOps: the document operations of a run, one step per await.  A block  *)
(* of extractAll3BReport issues its page.evaluate calls one after another;   *)
(* an issued call settles later, and the run is suspended until it has.      *)
(* The contact extractor also awaits a timer between its two calls.          *)

\* setTimeout(resolve, 2000) : milliseconds
SettleDelay == 2000

\* the awaited operations of extractCreditorContacts, in order: a rejected
\* first call jumps to the catch, the delay is awaited when buttons were clicked
contactOperations(pg, config) ==
    LET operations(expandedCount) ==
            IF expandedCount = Throw THEN <<"showButtons">>
            ELSE IF expandedCount.m > 0 THEN <<"showButtons", "delay", "contacts">>
            ELSE <<"showButtons", "contacts">>
    IN  operations(Evaluate(pg, "showButtons", showButtonsCallback(pg.doc, config)))

\* the awaited operations of the block of section s, in order
OperationsOf(s, pg, opts) ==
    IF ~Requested(opts, s) THEN <<>>
    ELSE CASE s = "scores"           -> <<"scores">>
           [] s = "personalInfo"     -> <<"personalInfo">>
           [] s = "summary"          -> <<"summary", "summaryDetails">>
           [] s = "accountHistory"   -> <<"accountHistory">>
           [] s = "publicRecords"    -> <<"publicRecords">>
           [] s = "inquiries"        ->
                 IF "inquiriesCount" \in pg.rejects THEN <<"inquiriesCount">>
                 ELSE <<"inquiriesCount", "inquiriesDetails">>
           [] s = "creditorContacts" ->
                 contactOperations(pg, extractorConfig.creditorContacts)

\* the position after the block of section s
NextSection(s) ==
    CASE s = "scores"           -> "personalInfo"
      [] s = "personalInfo"     -> "summary"
      [] s = "summary"          -> "accountHistory"
      [] s = "accountHistory"   -> "publicRecords"
      [] s = "publicRecords"    -> "inquiries"
      [] s = "inquiries"        -> "creditorContacts"
      [] s = "creditorContacts" -> "extracted"

\* await : the run does not go on while the awaited call or timer is pending
Suspended_never == FALSE

Suspended == awaiting # "none"

\* the next awaited operation of the current block, "none" when it has none left
NextOperation ==
    IF pc \in SectionNames /\ issued < Len(OperationsOf(pc, page, options))
    THEN OperationsOf(pc, page, options)[issued + 1]
    ELSE "none"

\* await page.evaluate(...) : the call is sent to the page
IssueOperation ==
    /\ outcome = "running"
    /\ ~Suspended
    /\ NextOperation \in Ops
    /\ inflight' = inflight \cup {NextOperation}
    /\ awaiting' = NextOperation
    /\ issued' = issued + 1
    /\ UNCHANGED <<page, options, buildOpts, pc, outcome, raw3BData, report, report2,
                   validation, now, completed, clicked, timer>>
    /\ UNCHANGED transformVars
    /\ UNCHANGED runVars

\* a call settles; the first callback of the contact extractor has clicked
\* the buttons it found unless the call rejected or the selector threw
CompleteOperation ==
    /\ \E op \in inflight :
           /\ inflight' = inflight \ {op}
           /\ completed' = completed \cup {op}
           /\ awaiting' = IF awaiting = op THEN "none" ELSE awaiting
           /\ clicked' =
                  IF op = "showButtons"
                     /\ Evaluate(page, op,
                                 showButtonsCallback(page.doc,
                                                     extractorConfig.creditorContacts)) # Throw
                  THEN showButtons(page.doc, extractorConfig.creditorContacts)
                  ELSE clicked
    /\ UNCHANGED <<page, options, buildOpts, pc, outcome, raw3BData, report, report2,
                   validation, now, issued, timer>>
    /\ UNCHANGED transformVars
    /\ UNCHANGED runVars

\* await new Promise(resolve => setTimeout(resolve, 2000))
StartDelay ==
    /\ outcome = "running"
    /\ ~Suspended
    /\ NextOperation = "delay"
    /\ timer' = [armed |-> TRUE, elapsed |-> 0]
    /\ awaiting' = "delay"
    /\ issued' = issued + 1
    /\ UNCHANGED <<page, options, buildOpts, pc, outcome, raw3BData, report, report2,
                   validation, now, inflight, completed, clicked>>
    /\ UNCHANGED transformVars
    /\ UNCHANGED runVars

\* time passes while the timer is armed
Tick ==
    /\ timer.armed
    /\ timer.elapsed < SettleDelay
    /\ \E step \in {SettleDelay \div 2, SettleDelay} :
           timer' = [timer EXCEPT !.elapsed =
                        IF @ + step > SettleDelay THEN SettleDelay ELSE @ + step]
    /\ UNCHANGED <<page, options, buildOpts, pc, outcome, raw3BData, report, report2,
                   validation, now, inflight, awaiting, issued, completed, clicked>>
    /\ UNCHANGED transformVars
    /\ UNCHANGED runVars

\* the timer fires and resolves the awaited promise
DelayElapsed ==
    /\ timer.armed
    /\ timer.elapsed >= SettleDelay
    /\ timer' = [timer EXCEPT !.armed = FALSE]
    /\ awaiting' = IF awaiting = "delay" THEN "none" ELSE awaiting
    /\ UNCHANGED <<page, options, buildOpts, pc, outcome, raw3BData, report, report2,
                   validation, now, inflight, issued, completed, clicked>>
    /\ UNCHANGED transformVars
    /\ UNCHANGED runVars

\* the block has awaited all its operations: its result is stored and the
\* function moves on to the next block
FinishBlock ==
    /\ pc \in SectionNames
    /\ outcome = "running"
    /\ ~Suspended
    /\ NextOperation = "none"
    /\ \E result \in {BlockOf(pc, raw3BData, page, options)} :
           IF result = Throw
           THEN /\ outcome' = "rejected"
                /\ pc' = "failed"
                /\ UNCHANGED raw3BData
           ELSE /\ raw3BData' = result
                /\ pc' = NextSection(pc)
                /\ outcome' = IF NextSection(pc) = "extracted" THEN "returned"
                                                               ELSE "running"
    /\ issued' = 0
    /\ UNCHANGED <<page, options, buildOpts, report, report2, validation, now,
                   inflight, awaiting, completed, clicked, timer>>
    /\ UNCHANGED transformVars
    /\ UNCHANGED runVars

NextOps ==
    \/ IssueOperation
    \/ CompleteOperation
    \/ StartDelay
    \/ Tick
    \/ DelayElapsed
    \/ FinishBlock

\* the labels of the buttons of the pages: a reveal toggle and another button,
\* no reveal toggle, two reveal toggles in other spellings
ButtonLabels ==
    {<<<<"S", "h", "o", "w">>, <<"H", "i", "d", "e">>>>,
     <<<<"H", "i", "d", "e">>>>,
     <<<<" ", "S", "H", "O", "W", " ">>, <<"s", "h", "o", "w", "n">>>>}

OpsRequests == {{"all"}, {"creditorContacts"}, {"summary", "inquiries"}}

InitOps ==
    \E plan \in FailurePlans, buttons \in ButtonLabels, requested \in OpsRequests :
        Called([doc |-> [DocWithout(plan[1]) EXCEPT !.buttons = buttons],
                rejects |-> plan[2]],
               [sections |-> requested, accountHistory |-> EmptyObj],
               [includeDashboard |-> FALSE])

SpecOps == InitOps /\ [][NextOps]_vars
-----------------------------------------------------------------------------
(* SpecRuns: two extraction-and-build runs of the server, on different      *)
(* documents, interleaved at the ends of their blocks (a run is suspended    *)
(* only inside a block, and a block writes its entry when it ends).  The     *)
(* build is synchronous.  Both runs use the same ExtractionService and       *)
(* ReportBuilder objects.                                                    *)

RunIds == {1, 2}

\* the documents of the runs
RunPages ==
    {[doc |-> DocWithout({}), rejects |-> {}],
     [doc |-> DocWithout({"summary"}), rejects |-> {}],
     [doc |-> DocWithout({"accountHistory", "textSelectors"}), rejects |-> {}],
     [doc |-> DocWithout({}), rejects |-> {"scores", "inquiriesDetails"}]}

\* the sections the runs request
RunRequests == {{"all"}, {"scores", "summary"}, {"accountHistory", "creditorContacts"}}

\* const raw3BData = {} of a run that reads one map pooled by the service
RawOf_shared(rs, r) == rs[1].raw3BData

\* const raw3BData = {} : the map of run r is its own
RawOf(rs, r) == rs[r].raw3BData

\* another run has started and has not finished
Overlaps(r) == \E q \in RunIds \ {r} : runs[q].pc \notin {"scores", "built", "failed"}

\* run r ends a block of extractAll3BReport
RunExtract(r) ==
    /\ pc = "runs"
    /\ runs[r].pc \in SectionNames
    /\ \E result \in {BlockOf(runs[r].pc, RawOf(runs, r), runs[r].page, runs[r].options)} :
           runs' = [runs EXCEPT ![r] =
                       IF result = Throw
                       THEN [@ EXCEPT !.pc = "failed",
                                      !.overlapped = @ \/ Overlaps(r)]
                       ELSE [@ EXCEPT !.raw3BData = result,
                                      !.pc = NextSection(runs[r].pc),
                                      !.overlapped = @ \/ Overlaps(r)]]
    /\ UNCHANGED <<page, options, buildOpts, pc, outcome, raw3BData, report, report2,
                   validation, now, service, request>>
    /\ UNCHANGED transformVars
    /\ UNCHANGED opVars

\* run r calls reportBuilder.buildFullReport on its raw map
RunBuild(r) ==
    /\ pc = "runs"
    /\ runs[r].pc = "extracted"
    /\ \E built \in {buildFullReport(RawOf(runs, r), buildOpts, now)} :
           runs' = [runs EXCEPT ![r] = [@ EXCEPT !.report = built.report,
                                                 !.raw3BData = built.rawData,
                                                 !.pc = "built",
                                                 !.overlapped = @ \/ Overlaps(r)]]
    /\ now' \in {now, now + 1}
    /\ UNCHANGED <<page, options, buildOpts, pc, outcome, raw3BData, report, report2,
                   validation, service, request>>
    /\ UNCHANGED transformVars
    /\ UNCHANGED opVars

NextRuns ==
    \/ \E r \in RunIds : RunExtract(r)
    \/ \E r \in RunIds : RunBuild(r)

InitRuns ==
    /\ page = GoodPage
    /\ options = AllSections
    /\ buildOpts = [includeDashboard |-> FALSE]
    /\ pc = "runs"
    /\ outcome = "running"
    /\ raw3BData = EmptyObj
    /\ report = NoReport
    /\ report2 = NoReport
    /\ validation = NoReport
    /\ now = 0
    /\ input = Undefined
    /\ output = NoResult
    /\ inflight = {}
    /\ awaiting = "none"
    /\ issued = 0
    /\ completed = {}
    /\ clicked = {}
    /\ timer = [armed |-> FALSE, elapsed |-> 0]
    /\ service = Services
    /\ request = NoRequest
    /\ \E pages \in [RunIds -> RunPages], requests \in [RunIds -> RunRequests] :
           /\ pages[1] # pages[2]
           /\ runs = [r \in RunIds |->
                         [page       |-> pages[r],
                          options    |-> [sections |-> requests[r],
                                          accountHistory |-> EmptyObj],
                          pc         |-> "scores",
                          raw3BData  |-> EmptyObj,
                          report     |-> NoReport,
                          overlapped |-> FALSE]]

SpecRuns == InitRuns /\ [][NextRuns]_vars
-----------------------------------------------------------------------------
(* SpecShapes: extractGridData on grids of every shape.  The document has   *)
(* up to two sections, the section read up to two grids; a grid has three,   *)
(* four or five column groups or none, and its columns are complete, hold    *)
(* only a header, hold no cell, or hold more cells than there are fields.    *)
(* The configuration names a section index and a grid index from 0 to 2 and  *)
(* a list of field names.  The page.evaluate call settles or rejects.        *)

ShapeHeader == <<"T", "U">>

\* columns: complete (a padded cell, an empty cell, a blank cell), header
\* only, without cells, longer than the field list
ShapeColumn(tag) ==
    CASE tag = "full"   -> <<ShapeHeader, <<" ", "J", " ", "D", "o", "e", " ">>, <<>>, <<" ", " ">>>>
      [] tag = "other"  -> <<ShapeHeader, <<"A">>, <<"B">>, <<"C">>>>
      [] tag = "header" -> <<ShapeHeader>>
      [] tag = "none"   -> <<>>
      [] tag = "long"   -> <<ShapeHeader, <<"1">>, <<"2", " ">>, <<"3">>, <<"4">>, <<"5">>>>

ShapeGrids ==
    {<<LabelColumn, ShapeColumn("full"), ShapeColumn("other"), ShapeColumn("long")>>,
     <<LabelColumn, ShapeColumn("header"), ShapeColumn("none"), ShapeColumn("full")>>,
     <<LabelColumn, ShapeColumn("full"), ShapeColumn("other")>>,
     <<LabelColumn, ShapeColumn("full"), ShapeColumn("other"), ShapeColumn("long"),
       ShapeColumn("other")>>,
     <<LabelColumn>>,
     <<>>}

ShapeGridLists ==
    {<<>>} \cup {<<grid>> : grid \in ShapeGrids}
           \cup {<<GoodPersonalGrid, grid>> : grid \in ShapeGrids}

ShapeSections ==
    {<<>>}
    \cup {<<Section(<<>>, grids, <<>>, <<>>)>> : grids \in ShapeGridLists}
    \cup {<<Section(<<>>, <<>>, <<>>, <<>>), Section(<<>>, grids, <<>>, <<>>)>> :
            grids \in ShapeGridLists}

ShapeFields == {<<"name", "date_of_birth", "employer">>, <<"name">>}

ShapeIndexes == 0 .. 2

\* extractGridData(page, input)
ApplyExtractGridData ==
    /\ pc = "grid"
    /\ Applied("extractGridData", extractGridData(page, input))

InitShapes ==
    /\ \E sections \in ShapeSections, rejects \in {{}, {"personalInfo", "summary"}} :
           page = [doc |-> [GoodDoc EXCEPT !.sections = sections], rejects |-> rejects]
    /\ \E sectionIndex \in ShapeIndexes, gridIndex \in ShapeIndexes, fields \in ShapeFields :
           input = [sectionIndex |-> sectionIndex, gridIndex |-> gridIndex,
                    fields |-> fields]
    /\ options = AllSections
    /\ buildOpts = [includeDashboard |-> FALSE]
    /\ pc = "grid"
    /\ outcome = "running"
    /\ raw3BData = EmptyObj
    /\ report = NoReport
    /\ report2 = NoReport
    /\ validation = NoReport
    /\ now = 0
    /\ output = NoResult
    /\ NoOperation

NextShapes == ApplyExtractGridData

SpecShapes == InitShapes /\ [][NextShapes]_vars
-----------------------------------------------------------------------------
(* SpecScopes: extractAccountHistory on documents whose sections are laid   *)
(* out differently.  The document has up to four sections; each has no       *)
(* heading, another heading, the heading "Account History" or a heading      *)
(* that contains it, and holds no account container or one, named after the  *)
(* position of its section.                                                  *)

ScopeHeadings ==
    {<<>>,
     <<<<"S", "u", "m", "m", "a", "r", "y">>>>,
     <<AccountHistoryText>>,
     <<<<"3", " ">> \o AccountHistoryText \o <<" ", "(", "2", ")">>,
       <<"S", "u", "m", "m", "a", "r", "y">>>>}

\* the sections a document may have at position i
ScopeSectionsAt(i) ==
    {Section(h5, <<>>, accounts, <<>>) :
        h5 \in ScopeHeadings, accounts \in {<<>>, <<GoodContainer(i)>>}}

ScopeLayouts ==
    {<<>>}
    \cup {<<s1>> : s1 \in ScopeSectionsAt(1)}
    \cup {<<s1, s2>> : s1 \in ScopeSectionsAt(1), s2 \in ScopeSectionsAt(2)}
    \cup {<<s1, s2, s3>> : s1 \in ScopeSectionsAt(1), s2 \in ScopeSectionsAt(2),
                           s3 \in ScopeSectionsAt(3)}
    \cup {<<s1, s2, s3, s4>> : s1 \in ScopeSectionsAt(1), s2 \in ScopeSectionsAt(2),
                               s3 \in ScopeSectionsAt(3), s4 \in ScopeSectionsAt(4)}

\* extractAccountHistory(page, extractorConfig.accountHistory)
ApplyExtractAccountHistory ==
    /\ pc = "accounts"
    /\ Applied("extractAccountHistory",
               extractAccountHistory(page, extractorConfig.accountHistory))

InitScopes ==
    /\ \E sections \in ScopeLayouts :
           page = [doc |-> [GoodDoc EXCEPT !.sections = sections], rejects |-> {}]
    /\ input = Undefined
    /\ options = AllSections
    /\ buildOpts = [includeDashboard |-> FALSE]
    /\ pc = "accounts"
    /\ outcome = "running"
    /\ raw3BData = EmptyObj
    /\ report = NoReport
    /\ report2 = NoReport
    /\ validation = NoReport
    /\ now = 0
    /\ output = NoResult
    /\ NoOperation

NextScopes == ApplyExtractAccountHistory

SpecScopes == InitScopes /\ [][NextScopes]_vars
-----------------------------------------------------------------------------
(* SpecContainers: extractAccountHistory on account containers of every     *)
(* shape.  The Account History section holds up to two containers.  A        *)
(* container differs from the complete one in its payment history (absent,   *)
(* throwing, two to four bureau blocks, blocks without months or with month  *)
(* elements that lack a label, a badge or a status class), in its days-late  *)
(* block (absent, throwing, without grid, two to four columns, columns       *)
(* without values grid or with missing or blank values), or in its name and  *)
(* grid (no name element, blank name, throwing name; no grid, throwing grid, *)
(* three or five column groups).                                             *)

StatusToken(suffix) == StatusPrefix \o suffix

\* month elements: without label and badge, with an empty status suffix,
\* without status class, with two status classes
OddMonths ==
    <<[classes |-> <<StatusToken(<<"1">>)>>, badge |-> NoEl, label |-> NoEl],
      [classes |-> <<StatusToken(<<>>)>>, badge |-> Str(<<" ", "3", "0", " ">>),
       label |-> Str(<<" ", "O", "c", "t">>)],
      [classes |-> <<<<"m", "b", "-", "1">>>>, badge |-> Str(<<>>), label |-> Str(<<"'", "2", "5">>)],
      [classes |-> <<StatusToken(<<"U">>), StatusToken(<<"C">>)>>, badge |-> Str(<<"O", "K">>),
       label |-> Str(<<"N", "o", "v">>)]>>

BlockShapes ==
    {NoEl,
     [months |-> <<>>],
     [months |-> <<GoodMonth(<<"A", "u", "g">>), GoodMonth(<<"S", "e", "p">>)>>],
     [months |-> OddMonths]}

PaymentHistoryShapes ==
    {NoEl, Malformed}
    \cup {[blocks |-> <<block, block, block>>] : block \in BlockShapes}
    \cup {[blocks |-> <<[months |-> OddMonths], [months |-> <<>>]>>],
          [blocks |-> <<[months |-> OddMonths], NoEl, [months |-> <<>>]>>],
          [blocks |-> <<[months |-> OddMonths], [months |-> <<>>], NoEl,
                        [months |-> OddMonths]>>]}

\* bureau columns of the days-late grid: without values grid (NoEl), without
\* values, with one value, with three, with blank and empty values
ColumnShapes ==
    {NoEl,
     [values |-> <<>>],
     [values |-> <<<<"0">>>>],
     [values |-> <<<<"1">>, <<"2">>, <<" ", "3">>>>],
     [values |-> <<<<" ">>, <<>>, <<"5", " ">>>>]}

DaysLateShapes ==
    {NoEl, Malformed, [grid |-> NoEl]}
    \cup {[grid |-> [cols |-> <<column, column, column>>]] : column \in ColumnShapes}
    \cup {[grid |-> [cols |-> <<[values |-> <<<<"1">>>>], [values |-> <<>>]>>]],
          [grid |-> [cols |-> <<[values |-> <<<<"1">>>>], NoEl, [values |-> <<>>]>>]],
          [grid |-> [cols |-> <<[values |-> <<<<"1">>>>], [values |-> <<>>],
                                [values |-> <<<<"2">>>>], NoEl>>]]}

NameShapes(n) == {AccountNamed(n), NoEl, Str(<<" ">>), Malformed}

AccountGridShapes ==
    {GoodAccountGrid, NoEl, Malformed,
     [columns |-> <<LabelColumn, AccountColumn, AccountColumn>>],
     [columns |-> <<LabelColumn, AccountColumn, <<>>, <<<<"T", "U">>>>, AccountColumn>>]}

\* the containers at position n of the list
ContainerShapes(n) ==
    {Container(AccountNamed(n), GoodAccountGrid, ph, GoodDaysLate) :
        ph \in PaymentHistoryShapes}
    \cup {Container(AccountNamed(n), GoodAccountGrid, GoodPaymentHistory, dl) :
        dl \in DaysLateShapes}
    \cup {Container(name, grid, GoodPaymentHistory, GoodDaysLate) :
        name \in NameShapes(n), grid \in AccountGridShapes}

ContainerLists ==
    {<<>>}
    \cup {<<c1>> : c1 \in ContainerShapes(1)}
    \cup {<<c1, c2>> : c1 \in ContainerShapes(1), c2 \in ContainerShapes(2)}

InitContainers ==
    /\ \E containers \in ContainerLists :
           page = [doc |-> AccountsDoc(containers), rejects |-> {}]
    /\ input = Undefined
    /\ options = AllSections
    /\ buildOpts = [includeDashboard |-> FALSE]
    /\ pc = "accounts"
    /\ outcome = "running"
    /\ raw3BData = EmptyObj
    /\ report = NoReport
    /\ report2 = NoReport
    /\ validation = NoReport
    /\ now = 0
    /\ output = NoResult
    /\ NoOperation

NextContainers == ApplyExtractAccountHistory

SpecContainers == InitContainers /\ [][NextContainers]_vars
-----------------------------------------------------------------------------
(* SpecInquiries: extractInquiries and extractInquiriesDetails.  The fourth *)
(* and the fifth section of the document each have no heading, the heading   *)
(* "Inquiries" (also padded with blanks) or a heading that only contains or  *)
(* resembles it, and rows of two, three or four cells with empty or blank    *)
(* cells; or the inquiries cell of the Summary grid holds one of several     *)
(* texts, is missing, or the Summary section has no grid.  Each of the two   *)
(* page.evaluate calls settles or rejects.                                   *)

InquiryHeadings ==
    {<<>>,
     <<InquiriesText>>,
     <<<<" ">> \o InquiriesText \o <<" ">>, InquiriesText>>,
     <<InquiriesText \o <<" ", "(", "2", ")">>>>,
     <<<<"i", "n", "q", "u", "i", "r", "i", "e", "s">>, InquiriesText>>}

InquiryRowLists ==
    {<<>>,
     GoodRows,
     <<<<<<"Z">>, <<"1", "/", "2", "/", "2", "0", "2", "5">>, <<"E", "Q">>>>>>,
     <<<<<<"X", " ">>, <<"d">>, <<"b">>, <<"e", "x", "t", "r", "a">>>>,
       <<<<" ">>, <<"d">>, <<"b">>>>,
       <<<<" ", "Y">>, <<>>, <<" ", "T", "U", " ">>>>,
       <<<<"W">>>>>>}

InquirySections ==
    {Section(h5, <<>>, <<>>, rows) : h5 \in InquiryHeadings, rows \in InquiryRowLists}

\* the Summary grid with text in the inquiries cell of the TransUnion column
InquiryCellTexts ==
    {<<"2">>, <<"0">>, <<>>, <<"-", "-">>, <<"-", "3">>, <<"1", "2", "a">>, <<" ", "7", " ">>}

InquiryCellRow == 10

InquirySummaryGrids ==
    {<<>>, <<[GoodSummaryGrid EXCEPT ![2] = SubSeq(@, 1, 5)]>>}
    \cup {<<GridWith(GoodSummaryGrid, 2, InquiryCellRow, text)>> : text \in InquiryCellTexts}

InquiryDocs ==
    {[GoodDoc EXCEPT !.sections = SubSeq(@, 1, 3) \o <<s4, s5>>] :
        s4 \in InquirySections, s5 \in InquirySections}
    \cup {[GoodDoc EXCEPT !.sections[2].grids = grids] : grids \in InquirySummaryGrids}
    \cup {[GoodDoc EXCEPT !.sections = SubSeq(@, 1, 1)]}

\* this.extractInquiries(page)
ApplyExtractInquiries ==
    /\ pc = "rows"
    /\ Applied("extractInquiries", extractInquiries(page))

\* extractInquiriesDetails(page, extractorConfig.inquiries)
ApplyExtractInquiriesDetails ==
    /\ pc = "rows"
    /\ Applied("extractInquiriesDetails",
               extractInquiriesDetails(page, extractorConfig.inquiries))

InitInquiries ==
    /\ \E doc \in InquiryDocs,
          rejects \in {{}, {"inquiriesCount"}, {"inquiriesDetails"}} :
           page = [doc |-> doc, rejects |-> rejects]
    /\ input = Undefined
    /\ options = AllSections
    /\ buildOpts = [includeDashboard |-> FALSE]
    /\ pc = "rows"
    /\ outcome = "running"
    /\ raw3BData = EmptyObj
    /\ report = NoReport
    /\ report2 = NoReport
    /\ validation = NoReport
    /\ now = 0
    /\ output = NoResult
    /\ NoOperation

NextInquiries ==
    \/ ApplyExtractInquiries
    \/ ApplyExtractInquiriesDetails

SpecInquiries == InitInquiries /\ [][NextInquiries]_vars
-----------------------------------------------------------------------------
(* parseAccountHistory on its own *)

\* PartialAccount under another name
NamedPartial(name) == [PartialAccount EXCEPT !.account_name = Str(name)]

\* raw accounts: complete, partial, with a bureau that is null, absent or
\* empty, with the optional sub-structures, and with a field that is a
\* number, not a string
HistoryAccounts ==
    {GoodRaw["accountHistory"].items[1],
     NamedPartial(<<"P">>),
     [NamedPartial(<<"N">>) EXCEPT !.experian = Null],
     [k \in {"account_name", "transunion", "equifax"} |-> NamedPartial(<<"A">>)[k]],
     [NamedPartial(<<"E">>) EXCEPT !.equifax = EmptyObj],
     [NamedPartial(<<" ", "S", " ">>) EXCEPT !.transunion.last_verified = Str(<<"-", "-">>)],
     Spread(NamedPartial(<<"H">>), [payment_history |-> GoodPaymentHistory]),
     [NamedPartial(<<"X">>) EXCEPT !.transunion.high_balance = IntNum(449)],
     [k \in {"account_name", "transunion", "equifax"} |->
         [NamedPartial(<<"Y">>) EXCEPT !.equifax.account_number = IntNum(5962)][k]]}

MaxHistory == 2

HistoryInputs ==
    {Null, Undefined, EmptyObj, Str(<<"x">>), IntNum(3)}
      \cup {Arr(accounts) :
              accounts \in UNION {[1 .. n -> HistoryAccounts] : n \in 0 .. MaxHistory}}

InitHistory ==
    /\ input \in HistoryInputs
    /\ page = GoodPage
    /\ options = AllSections
    /\ buildOpts = [includeDashboard |-> FALSE]
    /\ pc = "history"
    /\ outcome = "running"
    /\ raw3BData = EmptyObj
    /\ report = NoReport
    /\ report2 = NoReport
    /\ validation = NoReport
    /\ now = 0
    /\ output = NoResult
    /\ NoOperation

ApplyParseAccountHistory ==
    /\ pc = "history"
    /\ Applied("parseAccountHistory", parseAccountHistory(input))

NextHistory == ApplyParseAccountHistory

SpecHistory == InitHistory /\ [][NextHistory]_vars
-----------------------------------------------------------------------------
(* server.js : POST /api/sync *)

\* the options the handler passes to extractAll3BReport
SyncOptions ==
    [sections |-> {"scores", "personalInfo", "summary", "accountHistory",
                   "publicRecords", "inquiries"},
     accountHistory |-> EmptyObj]

\* messages of the errors the handler can catch: the three it throws itself
\* and messages of rejected database, browser and page calls
LoginFailedMessage == "Login falló - No se redirigió al dashboard"
NoDropdownMessage  == "No se encontró el dropdown \"Reports\""
NoLinkMessage      == "No se encontró el link \"3B Report & Scores\""
TimeoutMessage     == "Navigation timeout of 60000 ms exceeded"
RefusedMessage     == "connect ECONNREFUSED 127.0.0.1:27017"
ClosedMessage      == "Protocol error: Target closed"

RejectionMessages == {TimeoutMessage, RefusedMessage, ClosedMessage}

\* classifyScrapingError(error).code, by the substrings the lower-cased
\* message contains
classifyScrapingError(message) ==
    IF message = LoginFailedMessage THEN "AUTH_FAILED"
    ELSE IF message \in {NoDropdownMessage, NoLinkMessage} THEN "SITE_UNAVAILABLE"
    ELSE IF message \in {TimeoutMessage, RefusedMessage} THEN "NETWORK_ERROR"
    ELSE "UNKNOWN_ERROR"

\* the handler at its first statement: let browser = null
NewRequest ==
    [pc        |-> "findUser",
     browser   |-> "null",      \* the handler's variable browser
     launched  |-> FALSE,       \* puppeteer.launch has resolved
     threw     |-> {},          \* the steps that threw or rejected
     error     |-> "none",      \* the message of the caught error
     events    |-> <<>>,        \* launches, close attempts and responses, in order
     responses |-> <<>>]        \* the responses sent

\* the pages the browser can show once the report is open
SyncPages ==
    {GoodPage, [doc |-> GoodDoc, rejects |-> Ops]}
    \cup {[doc |-> GoodDoc, rejects |-> {op}] : op \in Ops}

InitSync ==
    /\ page \in SyncPages
    /\ options = SyncOptions
    /\ buildOpts = [includeDashboard |-> FALSE]
    /\ pc = "sync"
    /\ outcome = "running"
    /\ raw3BData = EmptyObj
    /\ report = NoReport
    /\ report2 = NoReport
    /\ validation = NoReport
    /\ now = 0
    /\ input = Undefined
    /\ output = NoResult
    /\ inflight = {}
    /\ awaiting = "none"
    /\ issued = 0
    /\ completed = {}
    /\ clicked = {}
    /\ timer = [armed |-> FALSE, elapsed |-> 0]
    /\ runs = <<>>
    /\ service = Services
    /\ request = NewRequest

\* a step of the handler that leaves the extraction and the report alone
SyncStep(req) ==
    /\ request' = req
    /\ UNCHANGED <<page, options, buildOpts, pc, outcome, raw3BData, report, report2,
                   validation, now, runs, service>>
    /\ UNCHANGED transformVars
    /\ UNCHANGED opVars

\* the request after a statement of the try block threw: control is in catch
Thrown(step, message) ==
    [request EXCEPT !.pc = "catch", !.threw = @ \cup {step}, !.error = message]

\* the request after res.status(status).json(body)
Responded(req, status, body) ==
    [req EXCEPT !.pc = "done",
                !.events = Append(@, "respond"),
                !.responses = Append(@, [status |-> status, body |-> body])]

\* const user = await User.findById(req.user.id); if (!user) return 404
SyncFindUser ==
    /\ pc = "sync" /\ request.pc = "findUser"
    /\ \/ SyncStep([request EXCEPT !.pc = "credentials"])
       \/ SyncStep(Responded(request, 404,
                             [success |-> FALSE, error |-> "User not found"]))
       \/ \E message \in RejectionMessages : SyncStep(Thrown("findUser", message))

\* if (!smartcreditEmail || !smartcreditPassword) return 400
SyncCredentials ==
    /\ pc = "sync" /\ request.pc = "credentials"
    /\ \/ SyncStep([request EXCEPT !.pc = "launch"])
       \/ SyncStep(Responded(request, 400,
                             [success |-> FALSE,
                              error |-> "SmartCredit credentials not configured"]))

\* browser = await puppeteer.launch(...)
SyncLaunch ==
    /\ pc = "sync" /\ request.pc = "launch"
    /\ \/ SyncStep([request EXCEPT !.pc = "goto", !.browser = "browser",
                                   !.launched = TRUE,
                                   !.events = Append(@, "launch")])
       \/ \E message \in RejectionMessages : SyncStep(Thrown("launch", message))

\* const page = await browser.newPage(); await page.goto(SMARTCREDIT_URL, ...)
SyncGoto ==
    /\ pc = "sync" /\ request.pc = "goto"
    /\ \/ SyncStep([request EXCEPT !.pc = "loginButton"])
       \/ \E message \in RejectionMessages : SyncStep(Thrown("goto", message))

\* try { waitForSelector; click; waitForNavigation } catch (error) { log }
SyncLoginButton ==
    /\ pc = "sync" /\ request.pc = "loginButton"
    /\ \/ SyncStep([request EXCEPT !.pc = "login"])
       \/ SyncStep([request EXCEPT !.pc = "login", !.threw = @ \cup {"loginButton"}])

\* the login form: wait for it, type the credentials, submit, and check the
\* url for '/member/'
SyncLogin ==
    /\ pc = "sync" /\ request.pc = "login"
    /\ \/ SyncStep([request EXCEPT !.pc = "navigate"])
       \/ \E message \in RejectionMessages \cup {LoginFailedMessage} :
              SyncStep(Thrown("login", message))

\* the navigation to the 3B report: the Reports dropdown, the 3B link, the
\* classic view button (optional) and the wait for the score section
SyncNavigate ==
    /\ pc = "sync" /\ request.pc = "navigate"
    /\ \/ SyncStep([request EXCEPT !.pc = "extract"])
       \/ \E message \in RejectionMessages \cup {NoDropdownMessage, NoLinkMessage} :
              SyncStep(Thrown("navigate", message))

\* const raw3BData = await extractionService.extractAll3BReport(page, {...})
SyncExtract ==
    /\ pc = "sync" /\ request.pc = "extract"
    /\ \E raw \in {extractAll3BReport(page, options)} :
           IF raw = Throw
           THEN /\ request' = Thrown("extract", ClosedMessage)
                /\ UNCHANGED raw3BData
           ELSE /\ request' = [request EXCEPT !.pc = "build"]
                /\ raw3BData' = raw
    /\ UNCHANGED <<page, options, buildOpts, pc, outcome, report, report2,
                   validation, now, runs, service>>
    /\ UNCHANGED transformVars
    /\ UNCHANGED opVars

\* const creditData = reportBuilder.buildFullReport(raw3BData, {...})
SyncBuild ==
    /\ pc = "sync" /\ request.pc = "build"
    /\ \/ /\ request' = [request EXCEPT !.pc = "save"]
          /\ \E built \in {buildFullReport(raw3BData, buildOpts, now)} :
                 /\ report' = built.report
                 /\ raw3BData' = built.rawData
       \/ /\ request' = Thrown("build", "text.trim is not a function")
          /\ UNCHANGED <<report, raw3BData>>
    /\ UNCHANGED <<page, options, buildOpts, pc, outcome, report2,
                   validation, now, runs, service>>
    /\ UNCHANGED transformVars
    /\ UNCHANGED opVars

\* try { await creditReport.save(); await User.findByIdAndUpdate(...) }
\* catch (dbError) { warn }
SyncSave ==
    /\ pc = "sync" /\ request.pc = "save"
    /\ \/ SyncStep([request EXCEPT !.pc = "close"])
       \/ SyncStep([request EXCEPT !.pc = "close", !.threw = @ \cup {"save"}])

\* await browser.close(); browser = null
SyncClose ==
    /\ pc = "sync" /\ request.pc = "close"
    /\ \/ SyncStep([request EXCEPT !.pc = "respond", !.browser = "null",
                                   !.events = Append(@, "close")])
       \/ SyncStep([Thrown("close", ClosedMessage) EXCEPT
                        !.events = Append(@, "close")])

\* res.json({ success: true, data: creditData })
SyncRespond ==
    /\ pc = "sync" /\ request.pc = "respond"
    /\ SyncStep(Responded(request, 200, [success |-> TRUE, data |-> report]))

\* catch without its close: the error response only
SyncCatch_noClose ==
    /\ pc = "sync" /\ request.pc = "catch"
    /\ SyncStep(Responded(request, 500,
                          [success |-> FALSE,
                           error |-> classifyScrapingError(request.error)]))

\* catch (error) { if (browser) { try { await browser.close() } catch {} }
\*                 res.status(500).json({...classifyScrapingError(error)}) }
SyncCatch ==
    /\ pc = "sync" /\ request.pc = "catch"
    /\ \E closed \in {[request EXCEPT !.events = IF request.browser = "null" THEN @
                                                 ELSE Append(@, "close")]} :
           SyncStep(Responded(closed, 500,
                              [success |-> FALSE,
                               error |-> classifyScrapingError(request.error)]))

NextSync ==
    \/ SyncFindUser
    \/ SyncCredentials
    \/ SyncLaunch
    \/ SyncGoto
    \/ SyncLoginButton
    \/ SyncLogin
    \/ SyncNavigate
    \/ SyncExtract
    \/ SyncBuild
    \/ SyncSave
    \/ SyncClose
    \/ SyncRespond
    \/ SyncCatch

SpecSync == InitSync /\ [][NextSync]_vars

\* the steps of the handler other than the extraction
SyncOther ==
    \/ SyncFindUser
    \/ SyncCredentials
    \/ SyncLaunch
    \/ SyncGoto
    \/ SyncLoginButton
    \/ SyncLogin
    \/ SyncNavigate
    \/ SyncBuild
    \/ SyncSave
    \/ SyncClose
    \/ SyncRespond
    \/ SyncCatch

\* weak fairness of SyncExtract, with its enabling condition written out: the
\* step is enabled exactly when the handler is at the extraction
SyncExtractSettles ==
    \/ []<>(~(pc = "sync" /\ request.pc = "extract"))
    \/ []<><<SyncExtract>>_vars

\* every awaited call of the handler settles, so the handler runs on
SpecSyncLive == SpecSync /\ WF_vars(SyncOther) /\ SyncExtractSettles
-----------------------------------------------------------------------------
(* Properties of the section blocks *)

\* what a run that requests only section s stores under s
ExtractedAlone(s) ==
    BlockOf(s, EmptyObj, page, [options EXCEPT !.sections = {s}])[s]

\* the calls and the document structure section s reads are in order
Extractable(s) ==
    CASE s = "scores" ->
            "scores" \notin page.rejects /\ Len(scoreElements(page.doc)) >= 3
      [] s = "personalInfo" ->
            "personalInfo" \notin page.rejects /\ Len(page.doc.sections[1].grids) > 0
      [] s = "summary" ->
            "summary" \notin page.rejects /\ Len(page.doc.sections[2].grids) > 0
      [] s = "accountHistory" ->
            "accountHistory" \notin page.rejects /\ Len(page.doc.sections[3].accounts) > 0
      [] s = "publicRecords" ->
            "publicRecords" \notin page.rejects /\ Len(page.doc.sections[2].grids) > 0
      [] s = "inquiries" ->
            /\ "inquiriesCount" \notin page.rejects
            /\ "inquiriesDetails" \notin page.rejects
            /\ Len(page.doc.sections[2].grids) > 0
            /\ page.doc.sections[4].h5 = <<InquiriesText>>
      [] s = "creditorContacts" ->
            /\ "showButtons" \notin page.rejects
            /\ "contacts" \notin page.rejects
            /\ Len(page.doc.contacts) > 0
            /\ page.doc.selectors = "extended"

RequestedSections == {s \in SectionNames : Requested(options, s)}

\* C1: section isolation.  Whatever sections are requested and whichever
\* extractors fail (a rejecting call or a missing structure), the run never
\* rejects; when it returns, the map holds exactly the requested sections,
\* each section's entry is what a run of that section alone stores, and every
\* section whose own calls and structure are in order is non-null.
SectionIsolation ==
    /\ outcome # "rejected"
    /\ pc = "extracted" =>
        /\ outcome = "returned"
        /\ DOMAIN raw3BData = RequestedSections
        /\ \A s \in RequestedSections :
            /\ raw3BData[s] = ExtractedAlone(s)
            /\ Extractable(s) => raw3BData[s] # Null

\* a returned run in which the summary grid read was rejected (summary is
\* null) while the sections before and after it were extracted
SectionIsolationWitness ==
    /\ pc = "extracted"
    /\ "summary" \in page.rejects
    /\ {"personalInfo", "summary", "publicRecords"} \subseteq RequestedSections
    /\ raw3BData["summary"] = Null
    /\ raw3BData["personalInfo"] # Null
    /\ raw3BData["publicRecords"] # Null

ReportKey(s) ==
    CASE s = "scores"           -> "credit_scores_3b"
      [] s = "personalInfo"     -> "personal_information"
      [] s = "summary"          -> "summary"
      [] s = "accountHistory"   -> "account_history"
      [] s = "publicRecords"    -> "public_records"
      [] s = "inquiries"        -> "inquiries"
      [] s = "creditorContacts" -> "creditor_contacts"

\* C3 as stated: after extraction and build, the key of every section that
\* was not requested or whose extraction failed is null.
NullWhenNotExtracted ==
    pc = "built" =>
        \A s \in SectionNames :
            (~Requested(options, s) \/ ~Extractable(s)) => report[ReportKey(s)] = Null

\* C3 amended: the key of a section that was not requested is null; a failed
\* scores, personal information, summary or public records section is null;
\* a failed account history or creditor contacts section is the empty list;
\* a failed inquiries section is the object {count, details} with count null
\* when the count read rejected or found no summary grid and details empty
\* when the detail read rejected or found no Inquiries section.
NullOrEmptyWhenNotExtracted ==
    pc = "built" =>
        \A s \in SectionNames :
            /\ ~Requested(options, s) => report[ReportKey(s)] = Null
            /\ (Requested(options, s) /\ ~Extractable(s)) =>
                 CASE s \in {"scores", "personalInfo", "summary", "publicRecords"} ->
                        report[ReportKey(s)] = Null
                   [] s \in {"accountHistory", "creditorContacts"} ->
                        report[ReportKey(s)] = Arr(<<>>)
                   [] s = "inquiries" ->
                        /\ DOMAIN report["inquiries"] = {"count", "details"}
                        /\ IsArray(report["inquiries"].details)
                        /\ ("inquiriesCount" \in page.rejects
                              \/ Len(page.doc.sections[2].grids) = 0)
                             => report["inquiries"].count = Null
                        /\ ("inquiriesCount" \in page.rejects
                              \/ "inquiriesDetails" \in page.rejects
                              \/ page.doc.sections[4].h5 # <<InquiriesText>>)
                             => report["inquiries"].details = Arr(<<>>)

\* a built report with a section that was not requested, and an account
\* history whose read was rejected
NullOrEmptyWitness ==
    /\ pc = "built"
    /\ RequestedSections # SectionNames
    /\ Requested(options, "accountHistory")
    /\ "accountHistory" \in page.rejects
    /\ report["account_history"] = Arr(<<>>)

\* C9 as stated: when every page operation rejects, the call
\* extractAll3BReport itself fails.
UnusablePageRejects ==
    (page.rejects = Ops /\ outcome # "running") => outcome = "rejected"


-----------------------------------------------------------------------------
(* Properties of the grid sections *)

\* the transform named by declaredTransform, applied to a raw value
Transformed(transform, value) ==
    IF transform = "cleanText" THEN cleanText(value) ELSE extractNumber(value)

IsNonEmptyString(v) == IsString(v) /\ v.chars # <<>>

\* C4 as stated: every field of report.summary is the declared transform of
\* the raw value stored under the same field name, and a non-empty raw
\* public_records or inquiries_2years value gives a non-null report value.
SummaryIsDeclaredTransform ==
    (pc = "built" /\ raw3BData["summary"] # Null) =>
        \A b \in BureauSet :
            /\ \A f \in Range(summaryFields) :
                   report["summary"][b][f] =
                       Transformed(declaredTransform("summary", f),
                                   raw3BData["summary"][b][f])
            /\ \A f \in {"public_records", "inquiries_2years"} :
                   IsNonEmptyString(raw3BData["summary"][b][f])
                       => report["summary"][b][f] # Null

\* C5 as stated: every field of report.personal_information is cleanText of
\* the raw value stored under the same field name, so a non-empty raw value
\* is never turned into null.
PersonalInfoIsCleanText ==
    (pc = "built" /\ raw3BData["personalInfo"] # Null) =>
        \A b \in BureauSet : \A f \in Range(personalInfoFields) :
            /\ report["personal_information"][b][f] =
                   cleanText(raw3BData["personalInfo"][b][f])
            /\ IsNonEmptyString(raw3BData["personalInfo"][b][f])
                   => report["personal_information"][b][f] # Null


-----------------------------------------------------------------------------
(* Properties of the account list *)

\* the state right after the account-history block of a run that requested it
AccountsExtracted == pc = "publicRecords" /\ Requested(options, "accountHistory")

Paginated == Get(options.accountHistory, "limit") # Undefined

Containers == page.doc.sections[3].accounts

\* the container whose payment-history and days-late blocks can be read
Repaired(container) ==
    [container EXCEPT !.ph = IF @ = Malformed THEN GoodPaymentHistory ELSE @,
                      !.dl = IF @ = Malformed THEN GoodDaysLate ELSE @]

\* the page without the failures of the payment-history and days-late reads
RepairedPage ==
    [page EXCEPT !.doc.sections[3].accounts =
        [i \in 1 .. Len(Containers) |-> Repaired(Containers[i])]]

\* the container an emitted account was read from
ContainerOf(account) ==
    Containers[CHOOSE j \in 1 .. Len(Containers) :
                   Containers[j].name = account.account_name]

\* C7: per-item isolation.  A failing payment-history or days-late read
\* leaves the number of emitted accounts unchanged (one per container with a
\* grid); the account it belongs to is emitted with that entry null and with
\* its name and per-bureau fields as without the failure, and every other
\* account is emitted exactly as without the failure.
PerItemIsolation ==
    (AccountsExtracted /\ ~Paginated) =>
        LET emitted  == raw3BData["accountHistory"].items
            repaired == extractAccountHistory(RepairedPage,
                                              extractorConfig.accountHistory).items
        IN  /\ Len(emitted) = Len(repaired)
            /\ Len(emitted) =
                   Cardinality({j \in 1 .. Len(Containers) : Containers[j].grid # NoEl})
            /\ \A k \in 1 .. Len(emitted) :
                   /\ emitted[k].account_name = repaired[k].account_name
                   /\ emitted[k].account_name # Null
                   /\ \A b \in BureauSet :
                          /\ emitted[k][b] = repaired[k][b]
                          /\ emitted[k][b]["account_number"] # Null
                   /\ emitted[k].payment_history =
                          IF ContainerOf(emitted[k]).ph = Malformed THEN Null
                          ELSE repaired[k].payment_history
                   /\ emitted[k].days_late =
                          IF ContainerOf(emitted[k]).dl = Malformed THEN Null
                          ELSE repaired[k].days_late

\* three containers of which the second has a payment-history block that
\* throws: three accounts are emitted, the second with payment_history null
\* and its fields populated
PerItemIsolationWitness ==
    /\ AccountsExtracted /\ ~Paginated
    /\ Len(Containers) = 3
    /\ Containers[2].ph = Malformed
    /\ Containers[1].ph # Malformed /\ Containers[3].ph # Malformed
    /\ Len(raw3BData["accountHistory"].items) = 3
    /\ raw3BData["accountHistory"].items[2].payment_history = Null
    /\ raw3BData["accountHistory"].items[2].account_name = AccountNamed(2)
    /\ raw3BData["accountHistory"].items[2].transunion["account_number"] # Null
    /\ raw3BData["accountHistory"].items[1].payment_history # Null

\* the full extraction of the page
FullList == extractAccountHistory(page, extractorConfig.accountHistory).items

RequestedLimit == options.accountHistory.limit.m
RequestedOffset ==
    IF Get(options.accountHistory, "offset") = Undefined
    THEN DefaultOffset ELSE options.accountHistory.offset.m

\* C8: pagination is a view over the full extraction.  With N accounts the
\* stored accounts are the sub-sequence [offset, offset+limit) of the full
\* list in order, total = N, hasMore is true exactly when offset+limit < N,
\* and limit and offset are echoed.
PaginationIsView ==
    (AccountsExtracted /\ Paginated) =>
        LET N  == Len(FullList)
            lo == IF RequestedOffset > N THEN N ELSE RequestedOffset
            hi == IF RequestedOffset + RequestedLimit > N
                  THEN N ELSE RequestedOffset + RequestedLimit
        IN  /\ raw3BData["accountHistory"] =
                   Arr([i \in 1 .. (hi - lo) |-> FullList[lo + i]])
            /\ raw3BData["accountHistoryPagination"] =
                   [total   |-> IntNum(N),
                    limit   |-> IntNum(RequestedLimit),
                    offset  |-> IntNum(RequestedOffset),
                    hasMore |-> Bool(RequestedOffset + RequestedLimit < N)]

\* 34 extracted accounts read with limit 20 and offset 0: 20 accounts,
\* total 34, hasMore true
PaginationWitness ==
    /\ AccountsExtracted /\ Paginated
    /\ Len(FullList) = 34
    /\ RequestedLimit = 20 /\ RequestedOffset = 0
    /\ Len(raw3BData["accountHistory"].items) = 20
    /\ raw3BData["accountHistoryPagination"].total = IntNum(34)
    /\ raw3BData["accountHistoryPagination"].hasMore = Bool(TRUE)


-----------------------------------------------------------------------------
(* Properties of the report builder *)

ReportKeys ==
    {"credit_scores_3b", "personal_information", "summary", "account_history",
     "public_records", "inquiries", "creditor_contacts", "scraped_at"}

\* C2: stable report schema.  Whatever section keys the raw map holds and
\* whichever of them are null, the built report has every key of ReportKeys,
\* none of them undefined, and the key of a section that is absent from the
\* raw map (or null in it) is null.
StableSchema ==
    pc \in {"built", "rebuilt"} =>
        /\ ReportKeys \subseteq DOMAIN report
        /\ \A k \in ReportKeys : report[k] # Undefined
        /\ \A s \in SectionNames :
               (s \notin DOMAIN raw3BData \/ raw3BData[s] = Null)
                   => report[ReportKey(s)] = Null

\* a report built from a raw map without a summary and with null scores
StableSchemaWitness ==
    /\ pc = "built"
    /\ "summary" \notin DOMAIN raw3BData
    /\ "scores" \in DOMAIN raw3BData /\ raw3BData["scores"] = Null
    /\ "personalInfo" \in DOMAIN raw3BData /\ raw3BData["personalInfo"] # Null
    /\ report["summary"] = Null
    /\ report["credit_scores_3b"] = Null
    /\ report["personal_information"] # Null

\* C6 as stated: in every account of report.account_history the three bureau
\* entries are maps with the same field names, whatever the raw accounts were.
AccountSchemaStable ==
    (pc = "built" /\ IsArray(report["account_history"])) =>
        \A i \in 1 .. Len(report["account_history"].items) :
            LET account == report["account_history"].items[i]
            IN  \A b \in BureauSet :
                    /\ b \in DOMAIN account
                    /\ IsObject(account[b])
                    /\ DOMAIN account[b] = DOMAIN account["transunion"]

\* report without its timestamps: scraped_at and, when the dashboard summary
\* was built, the scraped_at of the dashboard summary
WithoutTime(r) ==
    [k \in (DOMAIN r) \ {"scraped_at"} |->
        IF k = "dashboard_summary" /\ r[k] # Null
        THEN [j \in (DOMAIN r[k]) \ {"scraped_at"} |-> r[k][j]]
        ELSE r[k]]

-----------------------------------------------------------------------------
(* Properties of the field transforms *)

\* C12 as stated: extractNumber, parseScoreDate, cleanText and the report
\* builder's cleanText and parseDate never throw, whatever the type of their
\* argument.
TransformsAreTotal ==
    pc = "applied" => output.value # Throw

\* the padding that ends in a blank, a currency sign or a letter
DelimitingPads ==
    {before \in PadsBefore :
        before = <<>> \/ before[Len(before)] \notin {".", "-", "+"}}

\* the number written as sign, digits and decimal part
NumberValue(sign, digits, decimals) ==
    LET fraction == DropTrailingZeros(decimals)
    IN  Num((IF sign = <<"-">> THEN -1 ELSE 1)
                * (DigitsToNat(digits) * Pow10(Len(fraction)) + DigitsToNat(fraction)),
            Len(fraction))

\* C14 as stated: extractNumber of a text made of an optional sign, digits
\* and an optional decimal part, with non-digit padding before and after, is
\* that number; extractNumber(NaN) and extractNumber("") are null; a number
\* is returned unchanged.
ExtractNumberReadsEmbedded ==
    (pc = "applied" /\ output.fn = "extractNumber") =>
        /\ IsString(input) =>
               \A before \in DelimitingPads, sign \in Signs, digits \in DigitTexts,
                  decimals \in DecimalTexts, after \in PadsAfter :
                   input.chars = before \o NumberText(sign, digits, decimals) \o after
                       => output.value = NumberValue(sign, digits, decimals)
        /\ input \in {NaN, Str(<<>>)} => output.value = Null
        /\ (IsNumber(input) /\ input # NaN) => output.value = input

\* the places of a text where a date of the shape M/D/YYYY starts, with the
\* lengths of its month and day
DateShapes(s) ==
    {shape \in (1 .. Len(s)) \X (1 .. 2) \X (1 .. 2) :
        LET i  == shape[1]
            d0 == shape[1] + shape[2] + 1
            y0 == shape[1] + shape[2] + shape[3] + 2
        IN  /\ y0 + 3 <= Len(s)
            /\ \A j \in i .. (d0 - 2) : IsDigit(s[j])
            /\ s[d0 - 1] = "/"
            /\ \A j \in d0 .. (y0 - 2) : IsDigit(s[j])
            /\ s[y0 - 1] = "/"
            /\ \A j \in y0 .. (y0 + 3) : IsDigit(s[j])}

\* YYYY-MM-DD of the date of the given shape, month and day padded to two digits
IsoOfShape(s, shape) ==
    LET twoDigits(ds) == IF Len(ds) = 1 THEN <<"0", ds[1]>> ELSE ds
        month == SubSeq(s, shape[1], shape[1] + shape[2] - 1)
        day   == SubSeq(s, shape[1] + shape[2] + 1, shape[1] + shape[2] + shape[3])
        year  == SubSeq(s, shape[1] + shape[2] + shape[3] + 2,
                        shape[1] + shape[2] + shape[3] + 5)
    IN  Str(year \o <<"-">> \o twoDigits(month) \o <<"-">> \o twoDigits(day))

\* C15: parseDate.  For every text, when it holds a substring of the shape
\* M/D/YYYY the result is YYYY-MM-DD of the first such substring, month and
\* day padded with a zero to two digits and not validated against the
\* calendar; when it holds none, or is empty, the result is null.
ParseDateReformats ==
    (pc = "applied" /\ IsString(input)
        /\ output.fn \in {"parseScoreDate", "ReportBuilder.parseDate"}) =>
        LET shapes == DateShapes(input.chars)
            first  == CHOOSE shape \in shapes :
                          \A other \in shapes : shape[1] <= other[1]
        IN  IF shapes = {} THEN output.value = Null
            ELSE output.value = IsoOfShape(input.chars, first)

\* parseScoreDate("13/45/2025") has returned "2025-13-45", and the date of
\* "As of 1/5/2025 1/2/2024" is its first one, padded
ParseDateWitness ==
    /\ pc = "applied"
    /\ output.fn = "parseScoreDate"
    /\ \/ /\ input = Str(<<"1", "3", "/", "4", "5", "/", "2", "0", "2", "5">>)
          /\ output.value = Str(<<"2", "0", "2", "5", "-", "1", "3", "-", "4", "5">>)
       \/ /\ input = Str(<<"A", "s", " ", "o", "f", " ", "1", "/", "5", "/", "2", "0", "2", "5", " ", "1", "/", "2", "/", "2", "0", "2", "4">>)
          /\ output.value = Str(<<"2", "0", "2", "5", "-", "0", "1", "-", "0", "5">>)
-----------------------------------------------------------------------------
(* Properties of the account fields *)

\* YYYY-MM-DD of the first date of the shape M/D/YYYY in a raw value
DateOf(raw) ==
    IF raw = Null THEN Null
    ELSE LET shapes == DateShapes(raw.chars)
             first  == CHOOSE shape \in shapes :
                           \A other \in shapes : shape[1] <= other[1]
         IN  IF shapes = {} THEN Null ELSE IsoOfShape(raw.chars, first)

\* the trimmed text, or null when it is empty or "--"
TrimmedOrNull(raw) ==
    IF raw = Null THEN Null
    ELSE IF Trim(raw.chars) \in {<<>>, <<"-", "-">>} THEN Null
    ELSE Str(Trim(raw.chars))

\* the raw and the built account history
RawAccounts == raw3BData["accountHistory"].items
BuiltAccounts == report["account_history"].items

\* C13 as stated: every date field of every account and bureau is parseDate
\* of the raw value; every other field is null exactly when the trimmed raw
\* text is empty or "--" and is the trimmed text otherwise; payment_history
\* and days_late pass through.
AccountFieldsCleaned ==
    pc = "built" =>
        /\ Len(BuiltAccounts) = Len(RawAccounts)
        /\ \A i \in 1 .. Len(RawAccounts) :
               /\ BuiltAccounts[i].payment_history = RawAccounts[i].payment_history
               /\ BuiltAccounts[i].days_late = RawAccounts[i].days_late
               /\ \A b \in BureauSet, f \in Range(accountHistoryFields) :
                      BuiltAccounts[i][b][f] =
                          IF f \in DateFields THEN DateOf(RawAccounts[i][b][f])
                          ELSE TrimmedOrNull(RawAccounts[i][b][f])

\* C13 amended: as stated, except that a field other than a date is null
\* when the raw value is null, is exactly "-" or "N/A", or has a trimmed text
\* that is empty or "--", and is the trimmed text otherwise.
AccountFieldsTransformed ==
    pc = "built" =>
        /\ Len(BuiltAccounts) = Len(RawAccounts)
        /\ \A i \in 1 .. Len(RawAccounts) :
               /\ BuiltAccounts[i].payment_history = RawAccounts[i].payment_history
               /\ BuiltAccounts[i].days_late = RawAccounts[i].days_late
               /\ \A b \in BureauSet, f \in Range(accountHistoryFields) :
                      BuiltAccounts[i][b][f] =
                          IF f \in DateFields THEN DateOf(RawAccounts[i][b][f])
                          ELSE IF RawAccounts[i][b][f] \in {Str(DashText), Str(NAText)}
                          THEN Null
                          ELSE TrimmedOrNull(RawAccounts[i][b][f])

\* a built account whose raw high balance "N/A" became null while its date
\* reported "1/5/2024" became "2024-01-05" and its payment history passed
\* through
AccountFieldsWitness ==
    /\ pc = "built"
    /\ RawAccounts[1].transunion["high_balance"] = Str(NAText)
    /\ BuiltAccounts[1].transunion["high_balance"] = Null
    /\ RawAccounts[1].transunion["date_reported"] = Str(<<"1", "/", "5", "/", "2", "0", "2", "4">>)
    /\ BuiltAccounts[1].transunion["date_reported"] = Str(<<"2", "0", "2", "4", "-", "0", "1", "-", "0", "5">>)
    /\ BuiltAccounts[1].transunion["account_number"] = Str(<<"5", "9", "6", "2", "*">>)
    /\ BuiltAccounts[1].payment_history # Null
    /\ BuiltAccounts[2].payment_history = Null
-----------------------------------------------------------------------------
(* Properties of the validator *)

\* C11: validateReport.  missing lists, in the order credit_scores_3b,
\* personal_information, summary, exactly the keys that are null in the
\* report; valid is true exactly when missing is empty; the call returns (it
\* never throws) and leaves the report as it was; a report built from a raw
\* map whose scores, personalInfo and summary are present is valid.
ValidatorIsAdvisory ==
    /\ [](pc = "validated" =>
            /\ validation.missing =
                   Arr(SelectSeq2(requiredSections,
                                  {k \in Range(requiredSections) : report[k] = Null}))
            /\ validation.valid = Bool(validation.missing = Arr(<<>>))
            /\ (\A s \in {"scores", "personalInfo", "summary"} :
                    s \in DOMAIN raw3BData /\ raw3BData[s] # Null)
                   => validation.valid = Bool(TRUE))
    /\ [][pc' = "validated" => report' = report]_vars

\* a validated report without scores and summary: both are listed, in order
ValidatorWitness ==
    /\ pc = "validated"
    /\ report["credit_scores_3b"] = Null
    /\ report["personal_information"] # Null
    /\ report["summary"] = Null
    /\ validation = [valid |-> Bool(FALSE),
                     missing |-> Arr(<<"credit_scores_3b", "summary">>)]

-----------------------------------------------------------------------------
(* Properties of the document operations *)

\* the operations awaited before the contact read, on a page whose calls
\* all settle
EarlierOperations == Ops \ {"contacts"}

\* C16: single thread of control.  Within one extractAll3BReport run at most
\* one document operation (a read, or the reveal click batch) is in flight at
\* any moment, and it is the one the run is suspended on; no operation is in
\* flight while the run awaits the settling delay, so no section's read
\* overlaps the reveal step; and an operation is issued only when none is in
\* flight.
OneOperationAtATime ==
    /\ Cardinality(inflight) <= 1
    /\ inflight # {} => awaiting \in inflight
    /\ awaiting = "delay" => inflight = {}
    /\ "showButtons" \in inflight => inflight = {"showButtons"}
    /\ inflight \cap completed = {}

\* the contact read is in flight, alone, after the reveal step clicked a
\* button and every earlier operation of the run has settled
OneOperationWitness ==
    /\ inflight = {"contacts"}
    /\ completed = EarlierOperations
    /\ clicked # {}
    /\ timer.elapsed = SettleDelay

\* the toggles of the page: the buttons whose label contains "show" in any
\* letter case
ShowToggles(doc) ==
    {i \in 1 .. Len(doc.buttons) :
        Includes([j \in 1 .. Len(doc.buttons[i]) |-> ToLower(doc.buttons[i][j])],
                 ShowText)}

\* C17: reveal-then-read ordering.  In extractCreditorContacts every toggle
\* whose label contains "show" (case-insensitively) is activated first: the
\* contact read is issued only after the reveal call has settled with every
\* such toggle clicked, and a run whose reveal call does not reject ends
\* with every toggle clicked; whenever a toggle was activated the read
\* starts only after the settling delay has fully elapsed.
RevealThenRead ==
    /\ "contacts" \in inflight \cup completed =>
          /\ "showButtons" \in completed \ inflight
          /\ clicked = ShowToggles(page.doc)
          /\ clicked # {} => timer = [armed |-> FALSE, elapsed |-> SettleDelay]
    /\ (/\ pc = "extracted"
        /\ Requested(options, "creditorContacts")
        /\ "showButtons" \notin page.rejects) => clicked = ShowToggles(page.doc)
-----------------------------------------------------------------------------
(* Properties of concurrent runs *)

-----------------------------------------------------------------------------
(* Properties of the grid extractor *)

\* the grid the configuration names is in the document
GridInRange(doc, config) ==
    /\ config.sectionIndex < Len(doc.sections)
    /\ config.gridIndex < Len(doc.sections[config.sectionIndex + 1].grids)

GridOf(doc, config) == doc.sections[config.sectionIndex + 1].grids[config.gridIndex + 1]

\* the bureau maps of a grid: in bureau column k the i-th field name maps to
\* the trimmed text of cell i + 1, or to null when that cell is missing or
\* empty
ZippedGrid(grid, fields) ==
    [b \in BureauSet |->
        [name \in Range(fields) |->
            LET column == grid[IndexOf(Bureaus, b) + 1]
                cell   == IndexOf(fields, name) + 1
            IN  IF cell <= Len(column) /\ Trim(column[cell]) # <<>>
                THEN Str(Trim(column[cell])) ELSE Null]]

\* C19 as stated: extractGridData returns null when the section index or the
\* grid index is out of range or the grid does not have exactly 4 column
\* groups; otherwise every bureau map holds every configured field name, the
\* i-th name mapped to the trimmed text of cell i + 1 of the bureau's column,
\* or to null when that cell is missing or empty.
GridExtractorExactlyFour ==
    (pc = "applied" /\ output.fn = "extractGridData" /\ page.rejects = {}) =>
        IF ~GridInRange(page.doc, input) \/ Len(GridOf(page.doc, input)) # 4
        THEN output.value = Null
        ELSE output.value = ZippedGrid(GridOf(page.doc, input), input.fields)

\* the same with the column count the code tests: null for fewer than 4
\* column groups, the first four are read when there are more
GridExtractorAtLeastFour ==
    (pc = "applied" /\ output.fn = "extractGridData" /\ page.rejects = {}) =>
        IF ~GridInRange(page.doc, input) \/ Len(GridOf(page.doc, input)) < 4
        THEN output.value = Null
        ELSE output.value = ZippedGrid(GridOf(page.doc, input), input.fields)
-----------------------------------------------------------------------------
(* Properties of the account list *)

\* the sections whose heading contains "Account History"
TitledSections(doc) ==
    {i \in 1 .. Len(doc.sections) :
        /\ Len(doc.sections[i].h5) > 0
        /\ Includes(doc.sections[i].h5[1], AccountHistoryText)}

\* the located Account History section: the first titled one, else the third
\* section, else none (0)
LocatedSection(doc) ==
    IF TitledSections(doc) # {}
    THEN CHOOSE i \in TitledSections(doc) : \A j \in TitledSections(doc) : i <= j
    ELSE IF Len(doc.sections) >= 3 THEN 3 ELSE 0

\* the names of the account containers of section i, in document order
ContainerNames(doc, i) ==
    IF i = 0 THEN <<>>
    ELSE [k \in 1 .. Len(doc.sections[i].accounts) |->
             Str(Trim(doc.sections[i].accounts[k].name.chars))]

\* the names of the accounts of a result, in order
AccountNames(accounts) ==
    [k \in 1 .. Len(accounts.items) |-> accounts.items[k].account_name]

\* C20: account-list scoping.  extractAccountHistory emits exactly the
\* accounts whose container lies inside the located Account History section:
\* the first section whose heading contains "Account History", else the third
\* section when at least three sections exist, else none and the result is
\* the empty list.  No container of another section appears in the output.
AccountsScoped ==
    (pc = "applied" /\ output.fn = "extractAccountHistory") =>
        /\ IsArray(output.value)
        /\ AccountNames(output.value)
              = ContainerNames(page.doc, LocatedSection(page.doc))
        /\ LocatedSection(page.doc) = 0 => output.value = Arr(<<>>)

\* the titled section is the second one and its account is emitted, while
\* the first and the third section hold account containers too
AccountsScopedWitness ==
    /\ pc = "applied"
    /\ output.fn = "extractAccountHistory"
    /\ LocatedSection(page.doc) = 2
    /\ AccountNames(output.value) = <<AccountNamed(2)>>
    /\ Len(page.doc.sections) >= 3
    /\ page.doc.sections[1].accounts # <<>>
    /\ page.doc.sections[3].accounts # <<>>
-----------------------------------------------------------------------------
(* Properties of the summary counters *)

CounterFields == {"total_accounts", "open_accounts", "closed_accounts"}

\* C21 as stated: the total, open and closed account counts of the narrow
\* summary read are merged into each bureau's map without changing any other
\* summary field, and reach the report as the same numbers, for every count
\* from 0 on; when the main summary grid read is null the summary stays null.
SummaryCountersReachReport ==
    (pc = "built" /\ Requested(options, "summary")) =>
        LET reached(main, narrow) ==
                IF main = Null
                THEN raw3BData["summary"] = Null /\ report["summary"] = Null
                ELSE narrow # Null =>
                       \A b \in BureauSet :
                          /\ \A f \in CounterFields :
                                /\ raw3BData["summary"][b][f] = narrow[b][f]
                                /\ report["summary"][b][f] = narrow[b][f]
                          /\ \A f \in Range(summaryFields) \ CounterFields :
                                raw3BData["summary"][b][f] = main[b][f]
        IN  reached(extractGridData(page, extractorConfig.summary),
                    extractSummaryDetails(page))
-----------------------------------------------------------------------------
(* Properties of the optional sub-structures of an account *)

\* the account containers of the page that are emitted: those with a grid of
\* at least 4 column groups whose name and grid queries do not throw
EmittedContainers ==
    SelectSeq(page.doc.sections[3].accounts,
              LAMBDA container :
                  /\ container.name # Malformed
                  /\ container.grid \notin {NoEl, Malformed}
                  /\ Len(container.grid.columns) >= 4)

\* C22 as stated: whenever an account's days_late is non-null, each of the
\* three bureaus has the buckets "30", "60" and "90" and every bucket value
\* is a non-null string, an individually missing value being "0".
DaysLateBucketsAreStrings ==
    (pc = "applied" /\ output.fn = "extractAccountHistory") =>
        \A k \in 1 .. Len(output.value.items) :
            output.value.items[k].days_late # Null =>
                \A b \in BureauSet :
                    /\ DOMAIN output.value.items[k].days_late[b] = Buckets
                    /\ \A bucket \in Buckets :
                           /\ IsString(output.value.items[k].days_late[b][bucket])
                           /\ output.value.items[k].days_late[b][bucket] # Str(<<>>)

\* the status-* class tokens of a month element, by position
StatusTokens(classes) ==
    {i \in 1 .. Len(classes) :
        /\ Len(classes[i]) >= Len(StatusPrefix)
        /\ \E suffix \in {SubSeq(classes[i], Len(StatusPrefix) + 1, Len(classes[i]))} :
               classes[i] = StatusPrefix \o suffix}

\* what follows "status-" in the first status-* class token
StatusSuffix(classes) ==
    LET token == classes[CHOOSE i \in StatusTokens(classes) :
                            \A j \in StatusTokens(classes) : i <= j]
    IN  SubSeq(token, Len(StatusPrefix) + 1, Len(token))

\* the text of an optional element, trimmed, "" when the element is absent
TextOrEmpty(el) == IF el = NoEl THEN Str(<<>>) ELSE Str(Trim(el.chars))

\* the status class expected of a month element: the suffix of its status-*
\* token, nothing definite (Undefined) without such a token; with orUnknown,
\* "unknown" when the element has no such token or the suffix is empty
ExpectedClass(classes, orUnknown) ==
    IF orUnknown
    THEN IF StatusTokens(classes) = {} \/ StatusSuffix(classes) = <<>>
         THEN Str(UnknownText) ELSE Str(StatusSuffix(classes))
    ELSE IF StatusTokens(classes) = {} THEN Undefined ELSE Str(StatusSuffix(classes))

\* the payment history of the k-th emitted account is the one of its
\* container: null without history container or with fewer than 3 bureau
\* blocks, otherwise the month entries of the first three blocks in document
\* order; with orUnknown the status class of an empty suffix is "unknown"
PaymentHistoryOf(container, history, orUnknown) ==
    IF container.ph = NoEl \/ Len(container.ph.blocks) < 3
    THEN history = Null
    ELSE \A b \in 1 .. 3 :
            LET block   == container.ph.blocks[b]
                entries == history[Bureaus[b]]
            IN  /\ IsArray(entries)
                /\ Len(entries.items) = (IF block = NoEl THEN 0 ELSE Len(block.months))
                /\ \A m \in 1 .. Len(entries.items) :
                       /\ entries.items[m].month = TextOrEmpty(block.months[m].label)
                       /\ entries.items[m].status = TextOrEmpty(block.months[m].badge)
                       /\ ExpectedClass(block.months[m].classes, orUnknown)
                             \in {Undefined, entries.items[m].status_class}

PaymentHistories(orUnknown) ==
    (pc = "applied" /\ output.fn = "extractAccountHistory") =>
        /\ Len(output.value.items) = Len(EmittedContainers)
        /\ \A k \in 1 .. Len(output.value.items) :
               EmittedContainers[k].ph # Malformed =>
                   PaymentHistoryOf(EmittedContainers[k],
                                    output.value.items[k].payment_history, orUnknown)

\* C23 as stated: extractPaymentHistory returns null when the history
\* container is missing or fewer than 3 bureau blocks are found; otherwise it
\* returns for each bureau the month entries in document order, each with
\* its month label, its status label and status_class equal to the suffix of
\* the element's status-* class token.
PaymentHistorySuffix == PaymentHistories(FALSE)

\* C23 amended: the same, with status_class "unknown" when the suffix of the
\* status-* class token is empty or the element has no such token.
PaymentHistoryEntries == PaymentHistories(TRUE)

\* an emitted account whose payment history holds a month without label and
\* badge, a month with an empty status suffix and a month with two status
\* tokens, and a bureau without months
PaymentHistoryWitness ==
    /\ pc = "applied"
    /\ output.fn = "extractAccountHistory"
    /\ \E k \in 1 .. Len(output.value.items) :
           /\ output.value.items[k].payment_history # Null
           /\ \E b \in BureauSet :
                  /\ Len(output.value.items[k].payment_history[b].items) = Len(OddMonths)
                  /\ output.value.items[k].payment_history[b].items[1].month = Str(<<>>)
                  /\ output.value.items[k].payment_history[b].items[2].status_class
                        = Str(UnknownText)
                  /\ output.value.items[k].payment_history[b].items[4].status_class
                        = Str(<<"U">>)
           /\ \E b \in BureauSet :
                  output.value.items[k].payment_history[b] = Arr(<<>>)
-----------------------------------------------------------------------------
(* Properties of the inquiries *)

\* the sections whose trimmed heading is the configured heading
InquiriesSections(doc) ==
    {i \in 1 .. Len(doc.sections) :
        /\ Len(doc.sections[i].h5) > 0
        /\ Trim(doc.sections[i].h5[1]) = extractorConfig.inquiries.sectionHeading}

\* the rows of the first such section, none without such a section
LocatedRows(doc) ==
    IF InquiriesSections(doc) = {} THEN <<>>
    ELSE doc.sections[CHOOSE i \in InquiriesSections(doc) :
                          \A j \in InquiriesSections(doc) : i <= j].rows

\* the trimmed text of a cell, null when it is empty
CellOrNull(text) == IF Trim(text) = <<>> THEN Null ELSE Str(Trim(text))

\* the rows that are emitted: at least 3 cells and a first cell with text
DataRows(rows) ==
    SelectSeq(rows, LAMBDA cells : Len(cells) >= 3 /\ Trim(cells[1]) # <<>>)

\* the inquiries of a document: one per data row of the located section, in
\* document order
ExpectedInquiries(doc) ==
    [k \in 1 .. Len(DataRows(LocatedRows(doc))) |->
        [creditor_name |-> CellOrNull(DataRows(LocatedRows(doc))[k][1]),
         inquiry_date  |-> CellOrNull(DataRows(LocatedRows(doc))[k][2]),
         credit_bureau |-> CellOrNull(DataRows(LocatedRows(doc))[k][3])]]

\* C24: row list.  The section is found by exact match of its trimmed
\* heading with the configured heading, with no fallback (no match gives the
\* empty list); a row is emitted, as {creditor_name, inquiry_date,
\* credit_bureau} from its first three cells, exactly when it has at least 3
\* cells and a first cell that is not empty; emitted rows keep document
\* order.
InquiryRowsEmitted ==
    (/\ pc = "applied"
     /\ output.fn = "extractInquiriesDetails"
     /\ "inquiriesDetails" \notin page.rejects) =>
        output.value = Arr(ExpectedInquiries(page.doc))

\* the fifth section is the Inquiries section, the fourth only resembles
\* it; two of the four rows of the fifth are emitted, in order
InquiryRowsWitness ==
    /\ pc = "applied"
    /\ output.fn = "extractInquiriesDetails"
    /\ InquiriesSections(page.doc) = {5}
    /\ Len(page.doc.sections[4].rows) > 0
    /\ Len(page.doc.sections[5].rows) = 4
    /\ Len(output.value.items) = 2
    /\ output.value.items[1].creditor_name = Str(<<"X">>)
    /\ output.value.items[2] = [creditor_name |-> Str(<<"Y">>), inquiry_date |-> Null,
                                credit_bureau |-> Str(<<"T", "U">>)]

\* the bureau columns of the Summary grid, <<>> when the narrow read finds no
\* Summary section, no grid or fewer than 4 column groups
NarrowColumns(doc) ==
    IF Len(doc.sections) >= 2 /\ Len(doc.sections[2].grids) > 0
       /\ Len(doc.sections[2].grids[1]) >= 4
    THEN SubSeq(doc.sections[2].grids[1], 2, 4) ELSE <<>>

\* the integer at the start of the inquiries cell of a column, 0 when the
\* cell is missing or does not start with an integer
InquiriesCellValue(column) ==
    IF Len(column) < InquiryCellRow THEN IntNum(0)
    ELSE IF parseInt(Trim(column[InquiryCellRow])) = NaN THEN IntNum(0)
    ELSE parseInt(Trim(column[InquiryCellRow]))

\* the compound {count, details} of a page; with nonNegative every count is
\* required to be at least 0
InquiriesCompoundOf(value, nonNegative) ==
    /\ DOMAIN value = {"count", "details"}
    /\ IsArray(value.details)
    /\ (\/ "inquiriesDetails" \in page.rejects
        \/ "inquiriesCount" \in page.rejects
        \/ LocatedRows(page.doc) = <<>>) => value.details = Arr(<<>>)
    /\ ("inquiriesCount" \in page.rejects \/ NarrowColumns(page.doc) = <<>>)
          => value.count = Null
    /\ value.count # Null =>
          /\ DOMAIN value.count = BureauSet
          /\ \A b \in 1 .. 3 :
                /\ value.count[Bureaus[b]] = InquiriesCellValue(NarrowColumns(page.doc)[b])
                /\ value.count[Bureaus[b]].e = 0
                /\ nonNegative => value.count[Bureaus[b]].m >= 0

\* C25 as stated: the raw result of the inquiries section is an object
\* {count, details} in which details is always an array (empty when the
\* Inquiries section or its rows are missing or the row read fails) and count
\* is either null or a per-bureau triple of non-negative integers taken from
\* the inquiries cell of the Summary grid (0 when that cell is missing or not
\* numeric).
InquiriesCompoundNonNegative ==
    (pc = "applied" /\ output.fn = "extractInquiries") =>
        InquiriesCompoundOf(output.value, TRUE)

\* C25 amended: the same, the counts being the integers parseInt reads at the
\* start of the cell texts, negative when the text starts with a minus sign.
InquiriesCompound ==
    (pc = "applied" /\ output.fn = "extractInquiries") =>
        InquiriesCompoundOf(output.value, FALSE)

\* a compound whose count was read from a cell with digits followed by a
\* letter, and whose details are the rows of the Inquiries section
InquiriesCompoundWitness ==
    /\ pc = "applied"
    /\ output.fn = "extractInquiries"
    /\ output.value.count # Null
    /\ output.value.count["transunion"] = IntNum(12)
    /\ output.value.count["experian"] = IntNum(2)
    /\ Len(output.value.details.items) = 1
-----------------------------------------------------------------------------
(* Properties of the account field names *)

\* every bureau map of every account of the list has exactly the configured
\* field names
HasConfiguredFields(accounts) ==
    \A k \in 1 .. Len(accounts.items) :
        \A b \in BureauSet :
            DOMAIN accounts.items[k][b] = Range(accountHistoryFields)

\* the field names are count different names, in the extracted accounts and
\* in the accounts of the report
FieldCountIs(count) ==
    /\ Len(accountHistoryFields) = count
    /\ Cardinality(Range(accountHistoryFields)) = count
    /\ pc \in {"extracted", "built"} => HasConfiguredFields(raw3BData["accountHistory"])
    /\ pc = "built" =>
          /\ HasConfiguredFields(report["account_history"])
          /\ Len(report["account_history"].items) = Len(raw3BData["accountHistory"].items)

-----------------------------------------------------------------------------
(* Properties of parseAccountHistory *)

\* the parsed account has the four keys, the cleaned name of the raw account,
\* and for every bureau map of the raw account a map with all the field names
\* in which the fields the raw map does not hold are null
CompletedFrom(rawAccount, account) ==
    /\ {"account_name", "transunion", "experian", "equifax"} \subseteq DOMAIN account
    /\ account.account_name = builderCleanText(Get(rawAccount, "account_name"))
    /\ \A b \in BureauSet :
          IsObject(Get(rawAccount, b)) =>
              /\ IsObject(account[b])
              /\ DOMAIN account[b] = parsedAccountFieldNames
              /\ \A f \in parsedAccountFieldNames \ DOMAIN rawAccount[b] :
                     account[b][f] = Null

\* C27 as stated: parseAccountHistory returns, for every array of raw
\* accounts, an array of the same length whose i-th element is built from the
\* i-th input account and has account_name, transunion, experian and equifax;
\* a bureau map that holds only some of the fields is completed to the full
\* field set with null for the missing ones; a non-array or empty input gives
\* the empty array.
ParseAccountHistoryPreserves ==
    (pc = "applied" /\ output.fn = "parseAccountHistory") =>
        IF ~IsArray(input) \/ Len(input.items) = 0
        THEN output.value = Arr(<<>>)
        ELSE /\ IsArray(output.value)
             /\ Len(output.value.items) = Len(input.items)
             /\ \A i \in 1 .. Len(input.items) :
                    CompletedFrom(input.items[i], output.value.items[i])
-----------------------------------------------------------------------------
(* Properties of the pagination switch *)

\* the account history block has run
AccountsStored ==
    /\ Requested(options, "accountHistory")
    /\ pc \in {"publicRecords", "inquiries", "creditorContacts", "extracted", "built"}

\* slice(offset, offset + limit) of the list
WindowOf(list, limit, offset) ==
    [i \in 1 .. ((IF offset + limit > Len(list) THEN Len(list) ELSE offset + limit)
                   - (IF offset > Len(list) THEN Len(list) ELSE offset))
        |-> list[(IF offset > Len(list) THEN Len(list) ELSE offset) + i]]

\* C28: pagination is applied exactly when the account-history options
\* contain a limit.  With a limit the raw accountHistory is the window and
\* accountHistoryPagination {total, limit, offset, hasMore} is set and copied
\* into the report as account_history_pagination; without a limit, also when
\* only an offset is given, the full list is returned and neither the raw
\* result nor the report has a pagination entry.
PaginationFollowsLimit ==
    AccountsStored =>
        IF "limit" \in DOMAIN options.accountHistory
        THEN /\ raw3BData["accountHistory"] =
                    Arr(WindowOf(FullList, RequestedLimit, RequestedOffset))
             /\ "accountHistoryPagination" \in DOMAIN raw3BData
             /\ DOMAIN raw3BData["accountHistoryPagination"] =
                    {"total", "limit", "offset", "hasMore"}
             /\ pc = "built" =>
                    /\ "account_history_pagination" \in DOMAIN report
                    /\ report["account_history_pagination"] =
                           raw3BData["accountHistoryPagination"]
        ELSE /\ raw3BData["accountHistory"] = Arr(FullList)
             /\ "accountHistoryPagination" \notin DOMAIN raw3BData
             /\ pc = "built" => "account_history_pagination" \notin DOMAIN report

\* a report built without a limit and with an offset that would have cut the
\* list, and a report built with a limit that cuts it
OffsetOnlyWitness ==
    /\ pc = "built"
    /\ DOMAIN options.accountHistory = {"offset"}
    /\ options.accountHistory.offset.m < Len(FullList)
    /\ Len(raw3BData["accountHistory"].items) = Len(FullList)
    /\ Len(report["account_history"].items) = Len(FullList)
-----------------------------------------------------------------------------
(* Properties of the emitted accounts *)

\* the account containers of the Account History section, in document order
AccountContainers == page.doc.sections[3].accounts

\* whether the container at the position is emitted: its name and grid
\* queries do not throw and its grid has at least 4 column groups
IsEmitted(i) ==
    /\ AccountContainers[i].name # Malformed
    /\ AccountContainers[i].grid \notin {NoEl, Malformed}
    /\ Len(AccountContainers[i].grid.columns) >= 4

\* the positions of the emitted containers, ascending
EmittedPositions ==
    SelectSeq([i \in 1 .. Len(AccountContainers) |-> i], LAMBDA i : IsEmitted(i))

\* the name of the account of the container at the position
NameAt(i) ==
    IF AccountContainers[i].name = NoEl
          \/ Trim(AccountContainers[i].name.chars) = <<>>
    THEN Str(<<"U","n","k","n","o","w","n"," ","A","c","c","o","u","n","t"," ">>
             \o NatToChars(i))
    ELSE Str(Trim(AccountContainers[i].name.chars))

\* C29: the emitted accounts are a document-order subsequence of the
\* containers.  A container with no grid, with fewer than 4 column groups or
\* whose processing throws outside the two optional sub-structures is
\* omitted and the others are still processed; every other container yields
\* exactly one account, named "Unknown Account <position>" when it has no
\* name element.
AccountsAreSubsequence ==
    (pc = "applied" /\ output.fn = "extractAccountHistory") =>
        /\ Len(output.value.items) = Len(EmittedPositions)
        /\ \A k \in 1 .. Len(EmittedPositions) :
               /\ output.value.items[k].account_name = NameAt(EmittedPositions[k])
               /\ \A b \in 1 .. 3 :
                      output.value.items[k][<<"transunion", "experian", "equifax">>[b]] =
                          extractBureauData(
                              AccountContainers[EmittedPositions[k]].grid.columns,
                              b, accountHistoryFields)

\* a skipped first container followed by an emitted container without a name
\* element
SubsequenceWitness ==
    /\ pc = "applied"
    /\ output.fn = "extractAccountHistory"
    /\ Len(AccountContainers) = 2
    /\ ~IsEmitted(1)
    /\ AccountContainers[2].name = NoEl
    /\ Len(output.value.items) = 1
    /\ output.value.items[1].account_name =
           Str(<<"U","n","k","n","o","w","n"," ","A","c","c","o","u","n","t"," ","2">>)
-----------------------------------------------------------------------------
(* Properties of the browser lifecycle *)

\* at most one response; once the browser was launched, a response comes
\* after a close attempt; and a request in which nothing but the save (or the
\* optional click on the login button) failed is answered with success
LifecycleSafe ==
    /\ Len(request.responses) <= 1
    /\ request.pc = "done" <=> Len(request.responses) = 1
    /\ (request.launched /\ Len(request.responses) = 1) =>
           \E i, j \in 1 .. Len(request.events) :
               /\ i < j
               /\ request.events[i] = "close"
               /\ request.events[j] = "respond"
    /\ (request.launched /\ Len(request.responses) = 1
          /\ request.threw \subseteq {"save", "loginButton"}) =>
           /\ request.responses[1].status = 200
           /\ request.responses[1].body = [success |-> TRUE, data |-> report]

\* C30: on every path of a POST /api/sync request that launched a browser, a
\* close of that browser is attempted before the response is sent and
\* exactly one response is sent; a failed save of the report does not turn a
\* successful scrape into an error response.
BrowserLifecycle ==
    /\ [](pc = "sync" => LifecycleSafe)
    /\ (pc = "sync") ~> (request.pc = "done" /\ Len(request.responses) = 1)

\* a scrape whose save failed, answered with the report after the browser was
\* closed
FailedSaveWitness ==
    /\ pc = "sync"
    /\ request.pc = "done"
    /\ request.threw = {"save"}
    /\ request.events = <<"launch", "close", "respond">>
    /\ request.responses[1].status = 200
    /\ request.responses[1].body.data = report
    /\ report # NoReport
====
